---- MODULE Spec2Model ----
(***************************************************************************)
(* universal-time-sync: the synchronisation engine.                        *)
(*                                                                         *)
(*   TimeMath      calculateRTT, calculateOffset, calculateMean, stddev    *)
(*   FilterEngine  bounded history + outlier-robust offset estimate        *)
(*   SlewEngine    scale-factor (continuous) clock                         *)
(*   SyncedClock   ping/pong orchestrator, stepped wall clock, state       *)
(*                 machine, waitForInitialSync, lifecycle events           *)
(*                                                                         *)
(* Numbers.  JavaScript numbers are modelled as exact rationals held in    *)
(* integers: every time value is a whole number of "units", Scale units to *)
(* the millisecond.  Scale is chosen so that every division the code makes *)
(* on the inputs drawn here (the /2 of calculateOffset, the /n of          *)
(* calculateMean for n <= HistorySize) is exact.  The scale factor of the  *)
(* SlewEngine is a numerator over SlewDen, and performance.now() advances  *)
(* in steps of SlewDen milliseconds so that elapsed * scaleFactor is exact.*)
(*                                                                         *)
(* Operations.  Every method of the source is an operator from a record c  *)
(* of the whole program state to the record after the call; the actions    *)
(* apply one public operation (or one host callback) to the current state. *)
(* Listener callbacks and the transport's sendPing run user code in the    *)
(* middle of a method: what that code does is drawn from Reactions, one    *)
(* element of c.tape per callback invoked.                                 *)
(***************************************************************************)
EXTENDS Integers, Sequences, FiniteSets, TLC

VARIABLES
  \* host environment
  wall,               \* Date.now(), in units
  perf,               \* performance.now(), in units
  timers,             \* host scheduler: ids of the active setInterval timers
  hasDocument,        \* typeof document !== 'undefined'
  docHandlers,        \* number of visibilitychange handlers on document
  \* SyncedClock fields
  offset, targetOffset, lastNow, intervalId, msgCounter, state,
  syncedResolvers, lastIntervalFire, visibilityHandler,
  \* FilterEngine._history
  history,
  \* whether `new SyncedClock(config)` has returned an instance, and whether
  \* the transport holds the callback given to onPong (syncedClock.ts:67-72)
  constructed, pongHandler,
  \* SyncedClock._config (syncedClock.ts:36): an optional field left out is <<>>
  config,
  \* FilterEngine._historySize, FilterEngine._outlierThreshold (<<num, den>>)
  historySize, outlierThreshold,
  \* EventEmitter: listeners registered per event
  listeners,
  \* EventEmitter._listeners of an emitter used on its own (SpecEmitter): per
  \* event, the listeners in order of registration
  _listeners,
  \* SlewEngine fields
  slewRate, epochRealTime, epochSlewedTime, slewTargetOffset, scaleFactor,
  slewLastNow,
  \* observation (history variables, not program state)
  out,                \* what the last operation did, in order
  stopped,            \* stop()/destroy() was called and start() was not since
  destroyed,          \* destroy() was called
  stateChanges,       \* every state_change event emitted so far
  resolveCalls,       \* per waitForInitialSync() promise, in order of creation:
                      \* how many times it was resolved
  pushLog,            \* the push() and flush() calls made directly on a
                      \* FilterEngine (SpecFilter), in order
  nowRet,             \* <<v>>: v is the last value SyncedClock.now() returned
  perfRet             \* <<v>>: v is the last value SlewEngine.now() returned

vars == <<wall, perf, timers, hasDocument, docHandlers, offset, targetOffset,
          lastNow, intervalId, msgCounter, state, syncedResolvers,
          lastIntervalFire, visibilityHandler, history, listeners, slewRate,
          epochRealTime, epochSlewedTime, slewTargetOffset, scaleFactor,
          slewLastNow, out, stopped, destroyed, stateChanges, resolveCalls,
          nowRet, perfRet, historySize, outlierThreshold, pushLog, config,
          constructed, pongHandler, _listeners>>

----------------------------------------------------------------------------
\* Bounds of the model

\* config.historySize: capacity of the sample window
HistorySize == 2
\* pings dispatched in one execution
MaxPings == 2
\* waitForInitialSync() promises handed out in one execution
MaxWaiters == 2
\* setInterval timers alive at once
MaxTimers == 2
\* callbacks into user code (listeners, transport) that react within one operation
MaxTape == 1
\* listeners registered at once on clock.events
MaxListeners == 1

----------------------------------------------------------------------------
\* Units

RECURSIVE GCD(_, _)
GCD(a, b) == IF b = 0 THEN a ELSE GCD(b, a % b)

RECURSIVE LCMUpTo(_)
LCMUpTo(n) ==
  IF n <= 1 THEN 1 ELSE LET l == LCMUpTo(n - 1) IN (l * n) \div GCD(l, n)

\* units per millisecond: offsets are halves of whole milliseconds and means
\* divide by 1..HistorySize
Scale == 2 * LCMUpTo(HistorySize)

Ms(x) == x * Scale

Abs(x) == IF x < 0 THEN -x ELSE x
Sign(x) == IF x > 0 THEN 1 ELSE IF x < 0 THEN -1 ELSE 0
Min(a, b) == IF a <= b THEN a ELSE b
Max(a, b) == IF a >= b THEN a ELSE b

RECURSIVE SeqSum(_)
SeqSum(s) == IF s = <<>> THEN 0 ELSE Head(s) + SeqSum(Tail(s))

----------------------------------------------------------------------------
\* TimeMath

\* (variant: the round trip with the remote processing time left in)
calculateRTT_total(t0, t1, t2, t3) == t3 - t0

calculateRTT(t0, t1, t2, t3) == (t3 - t0) - (t2 - t1)

\* (variant: the offset of the client from the server)
calculateOffset_clientMinusServer(t0, t1, t2, t3) == ((t0 - t1) + (t3 - t2)) \div 2

calculateOffset(t0, t1, t2, t3) == ((t1 - t0) + (t2 - t3)) \div 2

calculateMean(values) ==
  IF Len(values) = 0 THEN 0 ELSE SeqSum(values) \div Len(values)

\* calculateStdDev(values)^2 * Len(values): the sum of squared deviations.
\* The square root itself is never needed: the code only tests stddev === 0
\* and |v - mean| <= k * stddev, both decided exactly on the squares.
SumSqDev(values) ==
  LET mean == calculateMean(values)
  IN  SeqSum([i \in 1..Len(values) |-> (values[i] - mean) * (values[i] - mean)])

----------------------------------------------------------------------------
\* FilterEngine

\* config.outlierThreshold = OutlierNum / OutlierDen
OutlierNum == 2
OutlierDen == 1

\* (variant: a full window drops the sample just pushed)
FilterEngine_push_dropsNewest(h, sample, size) ==
  IF Len(h) >= size THEN h ELSE Append(h, sample)

\* push(sample) on an engine of capacity size
FilterEngine_push(h, sample, size) ==
  LET h1 == Append(h, sample)
  IN  IF Len(h1) > size THEN Tail(h1) ELSE h1

\* the engine of the SyncedClock: new FilterEngine(config.historySize, ...)
push(h, sample) == FilterEngine_push(h, sample, historySize)

\* (variant: flush() leaves the samples in place)
flush_keepsHistory(h) == h

flush(h) == <<>>

\* (variant: with every sample rejected the estimate is 0)
FilterEngine_getOptimalOffset_zeroFallback(h, k) ==
  IF Len(h) = 0 THEN 0
  ELSE
    LET rtts == [i \in 1..Len(h) |-> h[i].rtt]
        meanRtt == calculateMean(rtts)
        ss == SumSqDev(rtts)
        Keep(s) ==
          \/ ss = 0
          \/ k[2] * k[2] * Len(h) * (s.rtt - meanRtt) * (s.rtt - meanRtt)
               <= k[1] * k[1] * ss
        filtered == SelectSeq(h, Keep)
        offsets == [i \in 1..Len(filtered) |-> filtered[i].offset]
    IN  IF Len(offsets) > 0 THEN calculateMean(offsets) ELSE 0

\* (variant: with all RTTs equal the estimate is the newest offset)
FilterEngine_getOptimalOffset_newestWhenSteady(h, k) ==
  IF Len(h) = 0 THEN 0
  ELSE
    LET rtts == [i \in 1..Len(h) |-> h[i].rtt]
        meanRtt == calculateMean(rtts)
        ss == SumSqDev(rtts)
        Keep(s) ==
          /\ ss # 0
          /\ k[2] * k[2] * Len(h) * (s.rtt - meanRtt) * (s.rtt - meanRtt)
               <= k[1] * k[1] * ss
        filtered == SelectSeq(h, Keep)
        offsets == [i \in 1..Len(filtered) |-> filtered[i].offset]
    IN  IF Len(offsets) > 0 THEN calculateMean(offsets) ELSE h[Len(h)].offset

\* getOptimalOffset() on an engine of threshold k = <<num, den>>
FilterEngine_getOptimalOffset(h, k) ==
  IF Len(h) = 0 THEN 0
  ELSE
    LET rtts == [i \in 1..Len(h) |-> h[i].rtt]
        meanRtt == calculateMean(rtts)
        ss == SumSqDev(rtts)
        \* stddevRtt === 0 || |s.rtt - meanRtt| <= outlierThreshold * stddevRtt
        \* (a threshold of NaN, 0/0, compares false)
        Keep(s) ==
          \/ ss = 0
          \/ /\ k[2] # 0
             /\ k[2] * k[2] * Len(h) * (s.rtt - meanRtt) * (s.rtt - meanRtt)
                  <= k[1] * k[1] * ss
        filtered == SelectSeq(h, Keep)
        offsets == [i \in 1..Len(filtered) |-> filtered[i].offset]
        fallbackMean == calculateMean([i \in 1..Len(h) |-> h[i].offset])
    IN  IF Len(offsets) > 0 THEN calculateMean(offsets) ELSE fallbackMean

\* the engine of the SyncedClock: new FilterEngine(..., config.outlierThreshold)
getOptimalOffset(h) == FilterEngine_getOptimalOffset(h, outlierThreshold)

----------------------------------------------------------------------------
\* SlewEngine.  scaleFactor and slewRate are numerators over SlewDen.

SlewDen == 20
\* new SlewEngine(): slewRate = 0.05 = DefaultSlewRate / SlewDen
DefaultSlewRate == 1
\* CONVERGENCE_THRESHOLD_MS = 0.001 = 1 / ConvergenceThresholdDen
ConvergenceThresholdDen == 1000
\* _lastNow = -Infinity: below every value the clock can take
NegInfinity == -1000000000

_computeSlewed(c, realNow) ==
  c.epochSlewedTime + ((realNow - c.epochRealTime) * c.scaleFactor) \div SlewDen

\* (variant: the factor follows the sign of the target offset itself)
_recomputeScaleFactor_bySign(c, realNow) ==
  [c EXCEPT !.scaleFactor =
     IF ConvergenceThresholdDen * Abs(c.slewTargetOffset) < Scale THEN SlewDen
     ELSE IF c.slewTargetOffset > 0 THEN SlewDen + c.slewRate
     ELSE SlewDen - c.slewRate]

_recomputeScaleFactor(c, realNow) ==
  LET target == realNow + c.slewTargetOffset
      gap == target - c.epochSlewedTime
  IN  [c EXCEPT !.scaleFactor =
         IF ConvergenceThresholdDen * Abs(gap) < Scale THEN SlewDen
         ELSE IF gap > 0 THEN SlewDen + c.slewRate
         ELSE SlewDen - c.slewRate]

SlewEngine_setTargetOffset(c, newTargetOffset) ==
  LET realNow == c.perf
      c1 == [c EXCEPT !.epochSlewedTime = _computeSlewed(c, realNow),
                      !.epochRealTime = realNow,
                      !.slewTargetOffset = newTargetOffset]
  IN  _recomputeScaleFactor(c1, realNow)

\* SlewEngine.now() without the Math.max against the last value returned
SlewEngine_now_noClamp(c) ==
  LET realNow == c.perf
      slewed0 == _computeSlewed(c, realNow)
      target == realNow + c.slewTargetOffset
      snap == \/ (c.scaleFactor > SlewDen /\ slewed0 >= target)
              \/ (c.scaleFactor < SlewDen /\ slewed0 <= target)
      slewed == IF snap THEN target ELSE slewed0
      c1 == IF snap
            THEN [c EXCEPT !.epochSlewedTime = target,
                           !.epochRealTime = realNow,
                           !.scaleFactor = SlewDen]
            ELSE c
      result == slewed
  IN  [c1 EXCEPT !.slewLastNow = result,
                 !.perfRet = <<result>>,
                 !.out = Append(@, [kind |-> "return", name |-> "performanceNow",
                                    val |-> result, stopped |-> c.stopped])]

\* (variant: SlewEngine.now() that snaps to the target but keeps the factor)
SlewEngine_now_keepsFactor(c) ==
  LET realNow == c.perf
      slewed0 == _computeSlewed(c, realNow)
      target == realNow + c.slewTargetOffset
      snap == \/ (c.scaleFactor > SlewDen /\ slewed0 >= target)
              \/ (c.scaleFactor < SlewDen /\ slewed0 <= target)
      slewed == IF snap THEN target ELSE slewed0
      c1 == IF snap
            THEN [c EXCEPT !.epochSlewedTime = target, !.epochRealTime = realNow]
            ELSE c
      result == Max(slewed, c.slewLastNow)
  IN  [c1 EXCEPT !.slewLastNow = result,
                 !.perfRet = <<result>>,
                 !.out = Append(@, [kind |-> "return", name |-> "performanceNow",
                                    val |-> result, stopped |-> c.stopped])]

\* (variant: SlewEngine.now() that resets the factor on a snap but keeps the
\* old anchor)
SlewEngine_now_keepsAnchor(c) ==
  LET realNow == c.perf
      slewed0 == _computeSlewed(c, realNow)
      target == realNow + c.slewTargetOffset
      snap == \/ (c.scaleFactor > SlewDen /\ slewed0 >= target)
              \/ (c.scaleFactor < SlewDen /\ slewed0 <= target)
      slewed == IF snap THEN target ELSE slewed0
      c1 == IF snap THEN [c EXCEPT !.scaleFactor = SlewDen] ELSE c
      result == Max(slewed, c.slewLastNow)
  IN  [c1 EXCEPT !.slewLastNow = result,
                 !.perfRet = <<result>>,
                 !.out = Append(@, [kind |-> "return", name |-> "performanceNow",
                                    val |-> result, stopped |-> c.stopped])]

SlewEngine_now(c) ==
  LET realNow == c.perf
      slewed0 == _computeSlewed(c, realNow)
      target == realNow + c.slewTargetOffset
      snap == \/ (c.scaleFactor > SlewDen /\ slewed0 >= target)
              \/ (c.scaleFactor < SlewDen /\ slewed0 <= target)
      slewed == IF snap THEN target ELSE slewed0
      c1 == IF snap
            THEN [c EXCEPT !.epochSlewedTime = target,
                           !.epochRealTime = realNow,
                           !.scaleFactor = SlewDen]
            ELSE c
      result == Max(slewed, c.slewLastNow)
  IN  [c1 EXCEPT !.slewLastNow = result,
                 !.perfRet = <<result>>,
                 !.out = Append(@, [kind |-> "return", name |-> "performanceNow",
                                    val |-> result, stopped |-> c.stopped])]

----------------------------------------------------------------------------
\* SyncConfig (an optional field is <<>> when absent, <<v>> when given), in ms

\* the configuration of the test suite
DefaultConfig ==
  [ syncIntervalMs |-> 1000,
    timeSlewRate |-> 700,
    driftWarningThreshold |-> <<>>,
    sleepDetectionThresholdMs |-> <<>> ]

DEFAULT_DRIFT_WARNING_THRESHOLD_MS == 500

\* values Date.now() takes (ms)
WallTimes == {0, 12000}

\* pong payloads the transport delivers (ms)
Pongs ==
  << [t0 |-> 0, t1 |-> 1000, t2 |-> 1000, t3 |-> 10, id |-> "ping-1"],
     [t0 |-> 0, t1 |-> -300, t2 |-> -300, t3 |-> 5, id |-> "ping-7"] >>

PongInUnits(p) ==
  [t0 |-> Ms(p.t0), t1 |-> Ms(p.t1), t2 |-> Ms(p.t2), t3 |-> Ms(p.t3), id |-> p.id]

\* the events of an emitter used on its own, and the callbacks registered on it
EmitterEvents == {"ping", "pong"}
EmitterCallbacks == {"cb1", "cb2"}

SyncEvents ==
  {"sync_start", "sync_success", "drift_warning", "sleep_detected", "state_change"}

\* What user code called back by the clock (an event listener, the transport's
\* sendPing) may do before it returns: nothing, a public method of the clock, or
\* (the transport) deliver a pong synchronously.
Reactions ==
  [op : {"none", "start", "stop", "destroy", "waitForInitialSync"}, arg : {0}]
    \cup [op : {"pong"}, arg : {1}]

Tapes == UNION {[1..n -> Reactions] : n \in 0..MaxTape}

----------------------------------------------------------------------------
\* Observation

Entry(c, kind, name, val, heard) ==
  [kind |-> kind, name |-> name, val |-> val, heard |-> heard, stopped |-> c.stopped]

Log(c, kind, name, val) ==
  [c EXCEPT !.out = Append(@, Entry(c, kind, name, val, 0))]

----------------------------------------------------------------------------
\* SyncedClock

Null == 0

\* setInterval hands out an id no live timer has
FreshTimer(c) ==
  CHOOSE i \in 1..(Cardinality(c.timers) + 1) :
    /\ i \notin c.timers
    /\ \A j \in 1..(i - 1) : j \in c.timers

RECURSIVE ResolveAll(_, _)
\* for (const resolve of this._syncedResolvers) resolve();
ResolveAll(c, rs) ==
  IF rs = <<>> THEN c
  ELSE ResolveAll(
         Log([c EXCEPT !.resolveCalls[Head(rs)] = @ + 1], "resolve", "waiter", Head(rs)),
         Tail(rs))

\* now() without the comparison against the last value returned
now_noClamp(c) ==
  LET real == c.wall
      slew == Min(Abs(c.targetOffset - c.offset), Ms(config.timeSlewRate))
                * Sign(c.targetOffset - c.offset)
      offset1 == c.offset + slew
      candidate == real + offset1
      c2 == [c EXCEPT !.offset = offset1, !.lastNow = candidate]
  IN  Log([c2 EXCEPT !.nowRet = <<c2.lastNow>>], "return", "now", c2.lastNow)

\* (variant: now() takes half the step the slew rate allows)
now_halfStep(c) ==
  LET real == c.wall
      slew == (Min(Abs(c.targetOffset - c.offset), Ms(config.timeSlewRate)) \div 2)
                * Sign(c.targetOffset - c.offset)
      offset1 == c.offset + slew
      candidate == real + offset1
      c1 == [c EXCEPT !.offset = offset1]
      c2 == IF candidate <= c.lastNow THEN c1 ELSE [c1 EXCEPT !.lastNow = candidate]
  IN  Log([c2 EXCEPT !.nowRet = <<c2.lastNow>>], "return", "now", c2.lastNow)

now(c) ==
  LET real == c.wall
      slew == Min(Abs(c.targetOffset - c.offset), Ms(config.timeSlewRate))
                * Sign(c.targetOffset - c.offset)
      offset1 == c.offset + slew
      candidate == real + offset1
      c1 == [c EXCEPT !.offset = offset1]
      c2 == IF candidate <= c.lastNow THEN c1 ELSE [c1 EXCEPT !.lastNow = candidate]
  IN  Log([c2 EXCEPT !.nowRet = <<c2.lastNow>>], "return", "now", c2.lastNow)

\* (variant: a performanceNow() that also brings the stepped offset to its
\* target)
performanceNow_stepsOffset(c) ==
  SlewEngine_now([c EXCEPT !.offset = c.targetOffset])

performanceNow(c) == SlewEngine_now(c)

waitForInitialSync(c) ==
  LET id == Len(c.resolveCalls) + 1
  IN  IF c.state = "SYNCED"
      THEN Log([c EXCEPT !.resolveCalls = Append(@, 1)], "resolve", "immediate", id)
      ELSE [c EXCEPT !.resolveCalls = Append(@, 0),
                     !.syncedResolvers = Append(@, id)]

\* stop() written as a partial teardown: it also settles the waiters
stop_settlesWaiters(c) ==
  LET c1 == [c EXCEPT !.stopped = TRUE]
      c2 == IF c1.intervalId # Null
            THEN [c1 EXCEPT !.timers = @ \ {c1.intervalId}, !.intervalId = Null]
            ELSE c1
  IN  [ResolveAll(c2, c2.syncedResolvers) EXCEPT !.syncedResolvers = <<>>]

stop(c) ==
  LET c1 == [c EXCEPT !.stopped = TRUE]
  IN  IF c1.intervalId # Null
      THEN [c1 EXCEPT !.timers = @ \ {c1.intervalId}, !.intervalId = Null]
      ELSE c1

removeAllListeners(c) == [c EXCEPT !.listeners = [e \in SyncEvents |-> 0]]

\* destroy() without the loop that resolves the pending waiters
destroy_noResolve(c) ==
  LET c1 == stop([c EXCEPT !.destroyed = TRUE])
      c2 == IF c1.hasDocument /\ c1.visibilityHandler # Null
            THEN [c1 EXCEPT !.docHandlers = @ - 1, !.visibilityHandler = Null]
            ELSE c1
      c3 == [c2 EXCEPT !.history = flush(@)]
  IN  removeAllListeners(c3)

\* destroy() that empties the waiter list without calling the resolvers
destroy_dropsWaiters(c) ==
  LET c1 == stop([c EXCEPT !.destroyed = TRUE])
      c2 == IF c1.hasDocument /\ c1.visibilityHandler # Null
            THEN [c1 EXCEPT !.docHandlers = @ - 1, !.visibilityHandler = Null]
            ELSE c1
      c3 == [c2 EXCEPT !.history = flush(@)]
      c5 == [c3 EXCEPT !.syncedResolvers = <<>>]
  IN  removeAllListeners(c5)

\* (variant: destroy() that resolves the waiters and leaves them in the list)
destroy_keepsWaiters(c) ==
  LET c1 == stop([c EXCEPT !.destroyed = TRUE])
      c2 == IF c1.hasDocument /\ c1.visibilityHandler # Null
            THEN [c1 EXCEPT !.docHandlers = @ - 1, !.visibilityHandler = Null]
            ELSE c1
      c3 == [c2 EXCEPT !.history = flush(@)]
      c4 == ResolveAll(c3, c3.syncedResolvers)
  IN  removeAllListeners(c4)

destroy(c) ==
  LET c1 == stop([c EXCEPT !.destroyed = TRUE])
      c2 == IF c1.hasDocument /\ c1.visibilityHandler # Null
            THEN [c1 EXCEPT !.docHandlers = @ - 1, !.visibilityHandler = Null]
            ELSE c1
      c3 == [c2 EXCEPT !.history = flush(@)]
      c4 == ResolveAll(c3, c3.syncedResolvers)
      c5 == [c4 EXCEPT !.syncedResolvers = <<>>]
  IN  removeAllListeners(c5)

\* (variant: one step takes the offset all the way to the target)
_applySlew_whole(c) ==
  [c EXCEPT !.offset = @ + (c.targetOffset - c.offset)]

_applySlew(c) ==
  LET diff == c.targetOffset - c.offset
      slew == Min(Abs(diff), Ms(config.timeSlewRate)) * Sign(diff)
  IN  [c EXCEPT !.offset = @ + slew]

\* The transport of the end-to-end test: it answers a ping at once, from a
\* server clock SERVER_AHEAD_MS ahead, after the one-way latencies lat (ms)
SERVER_AHEAD_MS == 5000

\* one-way latencies [client to server, server to client] in ms
E2ELatencies == << <<20, 25>>, <<43, 48>> >>

ServerPong(c, lat) ==
  LET pings == SelectSeq(c.out, LAMBDA e : e.kind = "ping")
      ping == pings[Len(pings)].val
  IN  [t0 |-> ping.t0,
       t1 |-> ping.t0 + Ms(SERVER_AHEAD_MS + lat[1]),
       t2 |-> ping.t0 + Ms(SERVER_AHEAD_MS + lat[1]),
       t3 |-> ping.t0 + Ms(lat[1] + lat[2]),
       id |-> ping.id]

RECURSIVE React(_, _), Callback(_), Deliver(_, _), emit(_, _, _),
          _transitionState(_, _), _sendPing(_), start(_), _handlePong(_, _)

\* one callback into user code: it does what the head of the tape says
Callback(c) ==
  IF c.tape = <<>> THEN c
  ELSE React([c EXCEPT !.tape = Tail(@)], Head(c.tape))

React(c, r) ==
  CASE r.op = "none" -> c
    [] r.op = "start" -> start(Log(c, "call", "start", 0))
    [] r.op = "stop" -> stop(Log(c, "call", "stop", 0))
    [] r.op = "destroy" -> destroy(Log(c, "call", "destroy", 0))
    [] r.op = "waitForInitialSync" ->
         waitForInitialSync(Log(c, "call", "waitForInitialSync", 0))
    [] r.op = "pong" ->
         _handlePong(Log(c, "call", "pong", r.arg), PongInUnits(Pongs[r.arg]))
    [] r.op = "answer" ->
         _handlePong(Log(c, "call", "pong", r.arg),
                     ServerPong(c, E2ELatencies[r.arg]))

\* for (const listener of listeners.slice()) listener(data), n listeners left
Deliver(c, n) == IF n = 0 THEN c ELSE Deliver(Callback(c), n - 1)

\* EventEmitter.emit: the listeners registered when emit begins are called in turn
emit(c, event, payload) ==
  Deliver([c EXCEPT !.out = Append(@, Entry(c, "emit", event, payload,
                                            c.listeners[event]))],
          c.listeners[event])

\* _transitionState once state_change was emitted, with the waiter list kept
_transitionState_keepsWaiters(c, next) ==
  IF next = "SYNCED" THEN ResolveAll(c, c.syncedResolvers) ELSE c

\* _transitionState once state_change was emitted: if (next === 'SYNCED') ...
_transitionState_settle(c, next) ==
  IF next = "SYNCED"
  THEN [ResolveAll(c, c.syncedResolvers) EXCEPT !.syncedResolvers = <<>>]
  ELSE c

_transitionState(c, next) ==
  IF c.state = next THEN c
  ELSE _transitionState_settle(
         emit([c EXCEPT !.state = next,
                        !.stateChanges = Append(@, [from |-> c.state, to |-> next])],
              "state_change", [from |-> c.state, to |-> next]),
         next)

\* _sendPing once sync_start was emitted, entering SYNCING on every ping
_sendPing_alwaysSyncing(c, payload) ==
  Callback(Log(_transitionState(c, "SYNCING"), "ping", "transport", payload))

\* _sendPing once sync_start was emitted: the transition out of UNSYNCED, then
\* this._config.transportAdapter.sendPing(payload)
_sendPing_dispatch(c, payload) ==
  Callback(Log(IF c.state = "UNSYNCED" THEN _transitionState(c, "SYNCING") ELSE c,
               "ping", "transport", payload))

\* (variant: the ping goes to the transport before sync_start and the transition)
_sendPing_transportFirst(c) ==
  LET c1 == Callback(Log([c EXCEPT !.msgCounter = @ + 1], "ping", "transport",
                         [t0 |-> c.wall, id |-> c.msgCounter + 1]))
      c2 == emit(c1, "sync_start", [timestamp |-> c.wall])
  IN  IF c2.state = "UNSYNCED" THEN _transitionState(c2, "SYNCING") ELSE c2

_sendPing(c) ==
  _sendPing_dispatch(
    emit([c EXCEPT !.msgCounter = @ + 1], "sync_start", [timestamp |-> c.wall]),
    [t0 |-> c.wall, id |-> c.msgCounter + 1])

\* start() once the first ping was sent: setInterval, and the visibilitychange
\* handler where there is a document
start_schedule(c) ==
  LET id == FreshTimer(c)
      c3 == [c EXCEPT !.intervalId = id, !.timers = @ \cup {id}]
  IN  IF c3.hasDocument
      THEN [c3 EXCEPT !.visibilityHandler = 1, !.docHandlers = @ + 1]
      ELSE c3

\* (variant: start() takes a slew step, as a tick does, before its ping)
start_slewsFirst(c) ==
  IF c.intervalId # Null THEN [c EXCEPT !.stopped = FALSE]
  ELSE start_schedule(
         _sendPing(_applySlew([c EXCEPT !.stopped = FALSE, !.lastIntervalFire = c.wall])))

\* (variant: start() leaves the time of the previous cycle as it was)
start_keepsLastFire(c) ==
  IF c.intervalId # Null THEN [c EXCEPT !.stopped = FALSE]
  ELSE start_schedule(_sendPing([c EXCEPT !.stopped = FALSE]))

start(c) ==
  IF c.intervalId # Null THEN [c EXCEPT !.stopped = FALSE]
  ELSE start_schedule(
         _sendPing([c EXCEPT !.stopped = FALSE, !.lastIntervalFire = c.wall]))

\* the sleep threshold: sleepDetectionThresholdMs ?? syncIntervalMs * 10
SleepThreshold ==
  IF config.sleepDetectionThresholdMs # <<>>
  THEN Ms(config.sleepDetectionThresholdMs[1])
  ELSE Ms(config.syncIntervalMs) * 10

\* (variant: _checkForSleep that keeps measuring from the same instant)
_checkForSleep_keepsLastFire(c) ==
  IF c.wall - c.lastIntervalFire > SleepThreshold
  THEN emit([c EXCEPT !.history = flush(@)], "sleep_detected",
            [gapMs |-> c.wall - c.lastIntervalFire, timestamp |-> c.wall])
  ELSE c

\* (variant: a sleep also resets the wall-clock target to the empty estimate)
_checkForSleep_resetsTarget(c) ==
  [(IF c.wall - c.lastIntervalFire > SleepThreshold
    THEN emit([c EXCEPT !.history = flush(@), !.targetOffset = getOptimalOffset(flush(@))],
              "sleep_detected",
              [gapMs |-> c.wall - c.lastIntervalFire, timestamp |-> c.wall])
    ELSE c) EXCEPT !.lastIntervalFire = c.wall]

\* _checkForSleep that also starts the synchronisation over after a sleep
_checkForSleep_resync(c) ==
  [(IF c.wall - c.lastIntervalFire > SleepThreshold
    THEN emit([c EXCEPT !.history = flush(@), !.state = "UNSYNCED"], "sleep_detected",
              [gapMs |-> c.wall - c.lastIntervalFire, timestamp |-> c.wall])
    ELSE c) EXCEPT !.lastIntervalFire = c.wall]

\* (variant: a sleep keeps the newest sample of the history)
_checkForSleep_keepsNewest(c) ==
  [(IF c.wall - c.lastIntervalFire > SleepThreshold
    THEN emit([c EXCEPT !.history = IF @ = <<>> THEN @ ELSE << @[Len(@)] >>],
              "sleep_detected",
              [gapMs |-> c.wall - c.lastIntervalFire, timestamp |-> c.wall])
    ELSE c) EXCEPT !.lastIntervalFire = c.wall]

_checkForSleep(c) ==
  [(IF c.wall - c.lastIntervalFire > SleepThreshold
    THEN emit([c EXCEPT !.history = flush(@)], "sleep_detected",
              [gapMs |-> c.wall - c.lastIntervalFire, timestamp |-> c.wall])
    ELSE c) EXCEPT !.lastIntervalFire = c.wall]

\* the drift threshold: driftWarningThreshold ?? DEFAULT_DRIFT_WARNING_THRESHOLD_MS
DriftThreshold ==
  IF config.driftWarningThreshold # <<>>
  THEN Ms(config.driftWarningThreshold[1])
  ELSE Ms(DEFAULT_DRIFT_WARNING_THRESHOLD_MS)

\* _handlePong once sync_success was emitted: the drift warning, then SYNCED
_handlePong_finish(c, now_) ==
  _transitionState(
    IF Abs(c.targetOffset) > DriftThreshold
    THEN emit(c, "drift_warning",
              [offset |-> c.targetOffset, threshold |-> DriftThreshold,
               timestamp |-> now_])
    ELSE c,
    "SYNCED")

\* _handlePong once the sample was filtered: the slew engine, then sync_success
_handlePong_publish(c, rtt) ==
  _handlePong_finish(
    emit(SlewEngine_setTargetOffset(c, c.targetOffset), "sync_success",
         [offset |-> c.targetOffset, rtt |-> rtt, timestamp |-> c.wall]),
    c.wall)

\* (variant: the estimate is taken before the new sample is pushed)
_handlePong_estimatesBeforePush(c, pong) ==
  LET rtt == calculateRTT(pong.t0, pong.t1, pong.t2, pong.t3)
      offset_ == calculateOffset(pong.t0, pong.t1, pong.t2, pong.t3)
      history1 == push(c.history, [rtt |-> rtt, offset |-> offset_])
  IN  _handlePong_publish(
        [c EXCEPT !.history = history1, !.targetOffset = getOptimalOffset(c.history)],
        rtt)

\* (variant: a pong is dropped unless a ping was dispatched before it)
_handlePong_dropsUnsolicited(c, pong) ==
  IF c.msgCounter = 0 THEN c
  ELSE LET rtt == calculateRTT(pong.t0, pong.t1, pong.t2, pong.t3)
           offset_ == calculateOffset(pong.t0, pong.t1, pong.t2, pong.t3)
           history1 == push(c.history, [rtt |-> rtt, offset |-> offset_])
       IN  _handlePong_publish(
             [c EXCEPT !.history = history1, !.targetOffset = getOptimalOffset(history1)],
             rtt)

\* (variant: a pong is handled only while the sync loop is running)
_handlePong_onlyWhileRunning(c, pong) ==
  IF c.intervalId = Null THEN c
  ELSE LET rtt == calculateRTT(pong.t0, pong.t1, pong.t2, pong.t3)
           offset_ == calculateOffset(pong.t0, pong.t1, pong.t2, pong.t3)
           history1 == push(c.history, [rtt |-> rtt, offset |-> offset_])
       IN  _handlePong_publish(
             [c EXCEPT !.history = history1, !.targetOffset = getOptimalOffset(history1)],
             rtt)

_handlePong(c, pong) ==
  LET rtt == calculateRTT(pong.t0, pong.t1, pong.t2, pong.t3)
      offset_ == calculateOffset(pong.t0, pong.t1, pong.t2, pong.t3)
      history1 == push(c.history, [rtt |-> rtt, offset |-> offset_])
  IN  _handlePong_publish(
        [c EXCEPT !.history = history1, !.targetOffset = getOptimalOffset(history1)],
        rtt)

\* the interval callback that sends no ping while a ping is unanswered
IntervalCallback_skipsWhileSyncing(c) ==
  IF c.state = "SYNCING"
  THEN _applySlew(_checkForSleep(c))
  ELSE _sendPing(_applySlew(_checkForSleep(c)))

\* the setInterval callback of start()
IntervalCallback(c) == _sendPing(_applySlew(_checkForSleep(c)))

RECURSIVE VisibilityHandlers(_, _)
\* document dispatches visibilitychange (visibilityState === 'visible') to the
\* n handlers registered on it; each one calls _sendPing()
VisibilityHandlers(c, n) ==
  IF n = 0 THEN c ELSE VisibilityHandlers(_sendPing(c), n - 1)

----------------------------------------------------------------------------
\* The state as one record, and back

Fields ==
  {"wall", "perf", "timers", "hasDocument", "docHandlers", "offset",
   "targetOffset", "lastNow", "intervalId", "msgCounter", "state",
   "syncedResolvers", "lastIntervalFire", "visibilityHandler", "history",
   "listeners", "slewRate", "epochRealTime", "epochSlewedTime",
   "slewTargetOffset", "scaleFactor", "slewLastNow", "stopped", "destroyed",
   "stateChanges",
   "resolveCalls", "nowRet", "perfRet"}

Cur ==
  [ wall |-> wall, perf |-> perf, timers |-> timers, hasDocument |-> hasDocument,
    docHandlers |-> docHandlers, offset |-> offset, targetOffset |-> targetOffset,
    lastNow |-> lastNow, intervalId |-> intervalId, msgCounter |-> msgCounter,
    state |-> state, syncedResolvers |-> syncedResolvers,
    lastIntervalFire |-> lastIntervalFire, visibilityHandler |-> visibilityHandler,
    history |-> history, listeners |-> listeners, slewRate |-> slewRate,
    epochRealTime |-> epochRealTime, epochSlewedTime |-> epochSlewedTime,
    slewTargetOffset |-> slewTargetOffset, scaleFactor |-> scaleFactor,
    slewLastNow |-> slewLastNow, stopped |-> stopped, destroyed |-> destroyed,
    stateChanges |-> stateChanges,
    resolveCalls |-> resolveCalls, nowRet |-> nowRet, perfRet |-> perfRet,
    out |-> <<>>, tape |-> <<>> ]

\* the state in which user code calls `op`, its callbacks reacting as `tape` says
Call(op, arg, tape) ==
  [Log(Cur, "call", op, arg) EXCEPT !.tape = tape]

\* the executions explored stay within the bounds
InBoundsWithin(c, pings) ==
  /\ c.msgCounter <= Max(pings, msgCounter)
  /\ Len(c.resolveCalls) <= MaxWaiters
  /\ Cardinality(c.timers) <= MaxTimers
  /\ c.docHandlers <= MaxTimers

InBounds(c) == InBoundsWithin(c, MaxPings)

\* the operation has returned: its result is the next state
CommitWithin(c, pings) ==
  \E d \in {c} :
    /\ InBoundsWithin(d, pings)
    /\ wall' = d.wall
    /\ perf' = d.perf
    /\ timers' = d.timers
    /\ hasDocument' = d.hasDocument
    /\ docHandlers' = d.docHandlers
    /\ offset' = d.offset
    /\ targetOffset' = d.targetOffset
    /\ lastNow' = d.lastNow
    /\ intervalId' = d.intervalId
    /\ msgCounter' = d.msgCounter
    /\ state' = d.state
    /\ syncedResolvers' = d.syncedResolvers
    /\ lastIntervalFire' = d.lastIntervalFire
    /\ visibilityHandler' = d.visibilityHandler
    /\ history' = d.history
    /\ listeners' = d.listeners
    /\ slewRate' = d.slewRate
    /\ epochRealTime' = d.epochRealTime
    /\ epochSlewedTime' = d.epochSlewedTime
    /\ slewTargetOffset' = d.slewTargetOffset
    /\ scaleFactor' = d.scaleFactor
    /\ slewLastNow' = d.slewLastNow
    /\ out' = d.out
    /\ stopped' = d.stopped
    /\ destroyed' = d.destroyed
    /\ stateChanges' = d.stateChanges
    /\ resolveCalls' = d.resolveCalls
    /\ nowRet' = d.nowRet
    /\ perfRet' = d.perfRet
    /\ UNCHANGED <<historySize, outlierThreshold, pushLog, config,
                   constructed, pongHandler, _listeners>>

\* the operation has returned, within the bounds of Spec
Commit(c) == CommitWithin(c, MaxPings)

----------------------------------------------------------------------------
\* Init: new SyncedClock(config), at wall time 0

\* the field initialisers of SyncedClock and SlewEngine
FieldInitialisers(document, rates) ==
  /\ wall = Ms(0)
  /\ perf = 0
  /\ timers = {}
  /\ hasDocument = document
  /\ docHandlers = 0
  /\ offset = 0
  /\ targetOffset = 0
  /\ lastNow = 0
  /\ intervalId = Null
  /\ msgCounter = 0
  /\ state = "UNSYNCED"
  /\ syncedResolvers = <<>>
  /\ lastIntervalFire = 0
  /\ visibilityHandler = Null
  /\ history = <<>>
  /\ listeners = [e \in SyncEvents |-> 0]
  /\ _listeners = [e \in EmitterEvents |-> <<>>]
  /\ slewRate \in rates
  /\ epochRealTime = perf
  /\ epochSlewedTime = perf
  /\ slewTargetOffset = 0
  /\ scaleFactor = SlewDen
  /\ slewLastNow = NegInfinity
  /\ out = <<>>
  /\ stopped = FALSE
  /\ destroyed = FALSE
  /\ stateChanges = <<>>
  /\ resolveCalls = <<>>
  /\ nowRet = <<>>
  /\ perfRet = <<>>

\* the fields of a SyncedClock just constructed
InitFieldsWith(document, rates) ==
  /\ constructed = TRUE
  /\ pongHandler = TRUE
  /\ FieldInitialisers(document, rates)

\* new FilterEngine(size, k[1] / k[2]), nothing pushed yet
InitFilterWith(sizes, thresholds) ==
  /\ historySize \in sizes
  /\ outlierThreshold \in thresholds
  /\ pushLog = <<>>

InitWith(document, rates) ==
  /\ config = DefaultConfig
  /\ InitFieldsWith(document, rates)

\* a host without a document (Node), the SlewEngine built with its default rate
Init ==
  /\ InitWith(FALSE, {DefaultSlewRate})
  /\ InitFilterWith({HistorySize}, {<<OutlierNum, OutlierDen>>})

----------------------------------------------------------------------------
\* Actions: user code calls a public method.  The actions named ...With take
\* the set their inputs are drawn from; T is the set of tapes.

Now == Commit(now(Call("now", 0, <<>>)))

PerformanceNow == Commit(performanceNow(Call("performanceNow", 0, <<>>)))

WaitForInitialSync == Commit(waitForInitialSync(Call("waitForInitialSync", 0, <<>>)))

StartWith(T) == \E tape \in T : Commit(start(Call("start", 0, tape)))

Stop == Commit(stop(Call("stop", 0, <<>>)))

Destroy == Commit(destroy(Call("destroy", 0, <<>>)))

\* clock.events.on(event, listener)
On ==
  \E e \in SyncEvents :
    /\ Cardinality({k \in SyncEvents : listeners[k] > 0}) < MaxListeners
    /\ listeners[e] = 0
    /\ Commit([Call("on", e, <<>>) EXCEPT !.listeners[e] = @ + 1])

\* clock.events.off(event, listener)
Off ==
  \E e \in SyncEvents :
    /\ listeners[e] > 0
    /\ Commit([Call("off", e, <<>>) EXCEPT !.listeners[e] = @ - 1])

\* Actions: the host calls back

\* a live interval timer fires
TickWith(T) ==
  /\ timers # {}
  /\ \E tape \in T : Commit(IntervalCallback(Call("tick", 0, tape)))

\* the transport delivers a pong
HandlePongWith(P, T) ==
  /\ pongHandler
  /\ \E i \in P, tape \in T :
       Commit(_handlePong(Call("pong", i, tape), PongInUnits(Pongs[i])))

\* the document becomes visible
VisibilityChangeWith(T) ==
  /\ docHandlers > 0
  /\ \E tape \in T :
       Commit(VisibilityHandlers(Call("visibilitychange", 0, tape), docHandlers))

\* Actions: time passes

\* the wall clock reads another value (it may be set backward)
SetWall ==
  \E w \in WallTimes :
    /\ Ms(w) # wall
    /\ Commit([Call("setWall", w, <<>>) EXCEPT !.wall = Ms(w)])

\* performance.now() advances by SlewDen ms
AdvancePerfTo(maxSteps) ==
  /\ perf < maxSteps * Ms(SlewDen)
  /\ Commit([Call("advancePerf", 0, <<>>) EXCEPT !.perf = @ + Ms(SlewDen)])

----------------------------------------------------------------------------
\* Spec: the life cycle of one SyncedClock whose listeners and transport may
\* call back into it.

Start == StartWith(Tapes)
Tick == TickWith(Tapes)
HandlePong == HandlePongWith({1}, Tapes)

Next ==
  \/ WaitForInitialSync
  \/ Start
  \/ Stop
  \/ Destroy
  \/ On
  \/ Off
  \/ Tick
  \/ HandlePong
  \/ SetWall

Spec == Init /\ [][Next]_vars

----------------------------------------------------------------------------
\* FairSpec: the host fires a live interval timer sooner or later.  The
\* fairness is on the tick during which no callback calls back into the clock,
\* which is enabled exactly when Tick is; it does not weaken any refutation,
\* since it allows fewer behaviours than fairness on Tick.  Nothing obliges
\* user code to call the clock or the transport to deliver a pong.

TickQuiet == TickWith({<<>>})

FairSpec == Init /\ [][Next]_vars /\ WF_vars(TickQuiet)

----------------------------------------------------------------------------
\* SpecClock: the readings of one SyncedClock whose callbacks do not call back:
\* now() between pongs of either sign, ticks, stop()/start() and changes of the
\* wall clock in both directions.

StartQuiet == StartWith({<<>>})
HandlePongQuiet == HandlePongWith(DOMAIN Pongs, {<<>>})

NextClock ==
  \/ Now
  \/ SetWall
  \/ HandlePongQuiet
  \/ StartQuiet
  \/ TickQuiet
  \/ Stop

SpecClock == Init /\ [][NextClock]_vars

----------------------------------------------------------------------------
\* SpecSlew: one SlewEngine, built with any of SlewRates, driven directly.

\* slewRate given to the constructor, over SlewDen: the default 0.05, and 1.5
SlewRates == {DefaultSlewRate, 30}

\* arguments of setTargetOffset (ms)
SlewOffsets == {-100, -1, 2, 100}

\* steps of performance.now() in SpecSlew
MaxSlewSteps == 3

InitSlew ==
  /\ InitWith(FALSE, SlewRates)
  /\ InitFilterWith({HistorySize}, {<<OutlierNum, OutlierDen>>})

SetTargetOffset ==
  \E x \in SlewOffsets :
    Commit(SlewEngine_setTargetOffset(Call("setTargetOffset", x, <<>>), Ms(x)))

AdvancePerf == AdvancePerfTo(MaxSlewSteps)

NextSlew ==
  \/ SetTargetOffset
  \/ PerformanceNow
  \/ AdvancePerf

SpecSlew == InitSlew /\ [][NextSlew]_vars

----------------------------------------------------------------------------
\* Reading the observation

----------------------------------------------------------------------------
\* The FilterEngine alone: push(), flush() and getOptimalOffset() called
\* directly on an engine built with any capacity and any positive threshold

MaxFilterSize == 3
MaxFilterOps == 4

FilterSizes == 1..MaxFilterSize

\* outlierThreshold 0.5, 1 and 2
FilterThresholds == {<<1, 2>>, <<1, 1>>, <<2, 1>>}

\* samples in ms; two share their RTT, one is far from it
FilterSamples ==
  { [rtt |-> Ms(30), offset |-> Ms(6)],
    [rtt |-> Ms(30), offset |-> Ms(-12)],
    [rtt |-> Ms(150), offset |-> Ms(300)] }

InitFilter ==
  /\ InitWith(FALSE, {DefaultSlewRate})
  /\ InitFilterWith(FilterSizes, FilterThresholds)

\* what a call on the FilterEngine leaves alone
filterFrame ==
  <<wall, perf, timers, hasDocument, docHandlers, offset, targetOffset, lastNow,
    intervalId, msgCounter, state, syncedResolvers, lastIntervalFire,
    visibilityHandler, listeners, slewRate, epochRealTime, epochSlewedTime,
    slewTargetOffset, scaleFactor, slewLastNow, stopped, destroyed,
    stateChanges, resolveCalls, nowRet, perfRet, historySize, outlierThreshold,
    config, constructed, pongHandler, _listeners>>

NoSample == [rtt |-> 0, offset |-> 0]

FilterPush ==
  \E s \in FilterSamples :
    /\ Len(pushLog) < MaxFilterOps
    /\ history' = FilterEngine_push(history, s, historySize)
    /\ pushLog' = Append(pushLog, [op |-> "push", sample |-> s])
    /\ out' = <<Entry(Cur, "call", "push", s, 0)>>
    /\ UNCHANGED filterFrame

FilterFlush ==
  /\ Len(pushLog) < MaxFilterOps
  /\ history' = flush(history)
  /\ pushLog' = Append(pushLog, [op |-> "flush", sample |-> NoSample])
  /\ out' = <<Entry(Cur, "call", "flush", 0, 0)>>
  /\ UNCHANGED filterFrame

FilterGetOptimalOffset ==
  /\ out' = <<Entry(Cur, "call", "getOptimalOffset", 0, 0),
              Entry(Cur, "return", "getOptimalOffset",
                    FilterEngine_getOptimalOffset(history, outlierThreshold), 0)>>
  /\ UNCHANGED <<history, pushLog>>
  /\ UNCHANGED filterFrame

NextFilter ==
  \/ FilterPush
  \/ FilterFlush
  \/ FilterGetOptimalOffset

SpecFilter == InitFilter /\ [][NextFilter]_vars

----------------------------------------------------------------------------
\* SpecSync: one SyncedClock over several sync intervals, its callbacks not
\* calling back: every public method, ticks, pongs of either sign and a wall
\* clock that jumps past the sleep threshold and back.

MaxSyncPings == 3

\* the default configuration, and one that sets both optional thresholds
SyncConfigs ==
  { DefaultConfig,
    [DefaultConfig EXCEPT !.driftWarningThreshold = <<300>>,
                          !.sleepDetectionThresholdMs = <<15000>>] }

InitSync ==
  /\ config \in SyncConfigs
  /\ InitFieldsWith(FALSE, {DefaultSlewRate})
  /\ InitFilterWith({HistorySize}, {<<OutlierNum, OutlierDen>>})

StartSync == CommitWithin(start(Call("start", 0, <<>>)), MaxSyncPings)

\* the transport delivers a pong whose offset is negative
HandlePongSync == HandlePongWith({2}, {<<>>})

TickSync ==
  /\ timers # {}
  /\ CommitWithin(IntervalCallback(Call("tick", 0, <<>>)), MaxSyncPings)

NextSync ==
  \/ Now
  \/ PerformanceNow
  \/ SetWall
  \/ HandlePongSync
  \/ StartSync
  \/ TickSync
  \/ Stop
  \/ Destroy

SpecSync == InitSync /\ [][NextSync]_vars

----------------------------------------------------------------------------
\* SpecPong: pongs delivered to a SyncedClock whose listeners may, during an
\* event, hand the clock another pong (a transport that answers at once),
\* stop it or destroy it.

PongReactions ==
  [op : {"stop", "destroy"}, arg : {0}] \cup [op : {"pong"}, arg : DOMAIN Pongs]

PongTapes == {<<>>} \cup {<<r>> : r \in PongReactions}

HandlePongNested == HandlePongWith(DOMAIN Pongs, PongTapes)

NextPong ==
  \/ On
  \/ Off
  \/ StartQuiet
  \/ Stop
  \/ HandlePongNested

SpecPong == Init /\ [][NextPong]_vars

----------------------------------------------------------------------------
\* SpecConverge: a SlewEngine whose target is set only while it is converged
\* (factor 1, standing on its target), read at any time.

MaxConvergeSteps == 4

Converged ==
  /\ scaleFactor = SlewDen
  /\ _computeSlewed(Cur, perf) = perf + slewTargetOffset

SetTargetOffsetConverged ==
  /\ Converged
  /\ SetTargetOffset

AdvancePerfConverge == AdvancePerfTo(MaxConvergeSteps)

NextConverge ==
  \/ SetTargetOffsetConverged
  \/ PerformanceNow
  \/ AdvancePerfConverge

SpecConverge == InitSlew /\ [][NextConverge]_vars

----------------------------------------------------------------------------
\* SpecRepeat: one SlewEngine touched by the orchestrator alone.  The first
\* pong sets a target at time 0; later pongs set the same target again, each
\* after real time has passed; once now() has been read no target is set.

MaxRepeatSteps == 4

SetTargetOffsetAgain ==
  /\ perfRet = <<>>
  /\ \E x \in SlewOffsets :
       /\ \/ perf = 0 /\ slewTargetOffset = 0
          \/ perf > epochRealTime /\ slewTargetOffset = Ms(x)
       /\ Commit(SlewEngine_setTargetOffset(Call("setTargetOffset", x, <<>>), Ms(x)))

AdvancePerfRepeat == AdvancePerfTo(MaxRepeatSteps)

NextRepeat ==
  \/ SetTargetOffsetAgain
  \/ PerformanceNow
  \/ AdvancePerfRepeat

SpecRepeat == InitSlew /\ [][NextRepeat]_vars

----------------------------------------------------------------------------
\* SpecEmitter: an EventEmitter used on its own.  Two callbacks are registered
\* and removed on two events; a callback, when invoked, may do nothing, remove
\* or register a callback, or remove all listeners.

\* registrations per event
MaxRegistered == 2
\* callbacks that do something during one emit
MaxEmitterTape == 2

EventEmitter_on(ls, event, listener) == [ls EXCEPT ![event] = Append(@, listener)]

\* const idx = listeners.indexOf(listener); if (idx !== -1) listeners.splice(idx, 1)
EventEmitter_off(ls, event, listener) ==
  LET l == ls[event]
      at == {i \in DOMAIN l : l[i] = listener}
  IN  IF at = {} THEN ls
      ELSE LET idx == CHOOSE i \in at : \A j \in at : i <= j
           IN  [ls EXCEPT ![event] = SubSeq(l, 1, idx - 1) \o SubSeq(l, idx + 1, Len(l))]

EventEmitter_removeAllListeners(ls) == [e \in EmitterEvents |-> <<>>]

\* what a callback does with the emitter when it is invoked
EmitterReactions ==
  [op : {"none", "removeAllListeners"}, event : {"ping"}, listener : {"cb1"}]
    \cup [op : {"on", "off"}, event : EmitterEvents, listener : EmitterCallbacks]

EmitterTapes == UNION {[1..n -> EmitterReactions] : n \in 0..MaxEmitterTape}

\* listener(data): the invocation is recorded, then the callback does what the
\* head of the tape says
Invoke(e, listener) ==
  LET e1 == [e EXCEPT !.log = Append(@, listener)]
  IN  IF e.tape = <<>> THEN e1
      ELSE LET r == Head(e.tape)
               e2 == [e1 EXCEPT !.tape = Tail(@)]
           IN  CASE r.op = "none" -> e2
                 [] r.op = "on" ->
                      [e2 EXCEPT !.ls = EventEmitter_on(@, r.event, r.listener)]
                 [] r.op = "off" ->
                      [e2 EXCEPT !.ls = EventEmitter_off(@, r.event, r.listener)]
                 [] r.op = "removeAllListeners" ->
                      [e2 EXCEPT !.ls = EventEmitter_removeAllListeners(@)]

RECURSIVE EmitterDeliver(_, _)
\* for (const listener of copy) listener(data)
EmitterDeliver(e, copy) ==
  IF copy = <<>> THEN e ELSE EmitterDeliver(Invoke(e, Head(copy)), Tail(copy))

RECURSIVE EmitterDeliverLive(_, _, _)
\* for (let i = 0; i < listeners.length; i++) listeners[i](data)
EmitterDeliverLive(e, event, i) ==
  IF i > Len(e.ls[event]) THEN e
  ELSE EmitterDeliverLive(Invoke(e, e.ls[event][i]), event, i + 1)

\* (variant: emit walks the registered list itself, not a copy of it)
EventEmitter_emit_live(e, event) == EmitterDeliverLive(e, event, 1)

\* emit(event, data): the listeners of a copy of the list taken when emit begins
EventEmitter_emit(e, event) == EmitterDeliver(e, e.ls[event])

\* what a call on the emitter leaves alone
emitterFrame ==
  <<wall, perf, timers, hasDocument, docHandlers, offset, targetOffset, lastNow,
    intervalId, msgCounter, state, syncedResolvers, lastIntervalFire,
    visibilityHandler, history, listeners, slewRate, epochRealTime,
    epochSlewedTime, slewTargetOffset, scaleFactor, slewLastNow, stopped,
    destroyed, stateChanges, resolveCalls, nowRet, perfRet, historySize,
    outlierThreshold, pushLog, config, constructed, pongHandler>>

EmitterOn ==
  \E ev \in EmitterEvents, l \in EmitterCallbacks :
    /\ Len(_listeners[ev]) < MaxRegistered
    /\ _listeners' = EventEmitter_on(_listeners, ev, l)
    /\ out' = << Entry(Cur, "call", "on", [event |-> ev, listener |-> l], 0) >>
    /\ UNCHANGED emitterFrame

EmitterOff ==
  \E ev \in EmitterEvents, l \in EmitterCallbacks :
    /\ _listeners' = EventEmitter_off(_listeners, ev, l)
    /\ out' = << Entry(Cur, "call", "off", [event |-> ev, listener |-> l], 0) >>
    /\ UNCHANGED emitterFrame

EmitterRemoveAll ==
  /\ _listeners' = EventEmitter_removeAllListeners(_listeners)
  /\ out' = << Entry(Cur, "call", "removeAllListeners", 0, 0) >>
  /\ UNCHANGED emitterFrame

EmitterEmit ==
  \E ev \in EmitterEvents, tape \in EmitterTapes :
    \E e \in {EventEmitter_emit([ls |-> _listeners, tape |-> tape, log |-> <<>>], ev)} :
      /\ \A k \in EmitterEvents : Len(e.ls[k]) <= MaxRegistered
      /\ _listeners' = e.ls
      /\ out' = << Entry(Cur, "call", "emit", [event |-> ev, tape |-> tape], 0) >>
                  \o [i \in DOMAIN e.log |-> Entry(Cur, "listener", ev, e.log[i], 0)]
      /\ UNCHANGED emitterFrame

NextEmitter ==
  \/ EmitterOn
  \/ EmitterOff
  \/ EmitterRemoveAll
  \/ EmitterEmit

SpecEmitter == Init /\ [][NextEmitter]_vars

----------------------------------------------------------------------------
\* SpecTimeMath: calculateRTT and calculateOffset applied to the four
\* timestamps of an exchange with a remote clock ahead by theta, one-way
\* latencies d1 and d2 and a remote processing time p (all in ms).

Thetas == {-5000, -110, 0, 90, 5000}
Latencies == {0, 10, 20, 25}
ProcessingTimes == {0, 10}
SendTimes == {0, 100}

\* what a call of the two functions leaves alone
timeMathFrame ==
  <<wall, perf, timers, hasDocument, docHandlers, offset, targetOffset, lastNow,
    intervalId, msgCounter, state, syncedResolvers, lastIntervalFire,
    visibilityHandler, history, listeners, slewRate, epochRealTime,
    epochSlewedTime, slewTargetOffset, scaleFactor, slewLastNow, stopped,
    destroyed, stateChanges, resolveCalls, nowRet, perfRet, historySize,
    outlierThreshold, pushLog, config, constructed, pongHandler, _listeners>>

\* the timestamps of the exchange, then calculateRTT(t0, t1, t2, t3) and
\* calculateOffset(t0, t1, t2, t3)
Exchange ==
  \E theta \in Thetas, d1 \in Latencies, d2 \in Latencies,
     p \in ProcessingTimes, t0 \in SendTimes :
    LET t1 == t0 + theta + d1
        t2 == t1 + p
        t3 == t0 + d1 + p + d2
        x == [theta |-> theta, d1 |-> d1, d2 |-> d2, p |-> p, t0 |-> t0]
    IN  /\ out' = << Entry(Cur, "call", "exchange", x, 0),
                     Entry(Cur, "return", "calculateRTT",
                           calculateRTT(Ms(t0), Ms(t1), Ms(t2), Ms(t3)), 0),
                     Entry(Cur, "return", "calculateOffset",
                           calculateOffset(Ms(t0), Ms(t1), Ms(t2), Ms(t3)), 0) >>
        /\ UNCHANGED timeMathFrame

NextTimeMath == Exchange

SpecTimeMath == Init /\ [][NextTimeMath]_vars

----------------------------------------------------------------------------
\* SpecE2E: the end-to-end test.  start(), a reading, then NUM_ROUNDS times
\* one sync interval of fake time, the tick it fires and a reading.  The
\* transport answers every ping at once with one of the latency pairs.  The
\* pairs have the same asymmetry and different round-trip times, so every
\* estimate is exact in the units of the model whichever samples are kept.

NUM_ROUNDS == 10

E2EConfig ==
  [DefaultConfig EXCEPT !.syncIntervalMs = 1000, !.timeSlewRate = 500]

E2EHistorySize == 8

InitE2E ==
  /\ config = E2EConfig
  /\ InitFieldsWith(FALSE, {DefaultSlewRate})
  /\ InitFilterWith({E2EHistorySize}, {<<2, 1>>})

Answers == {<<[op |-> "answer", arg |-> i]>> : i \in DOMAIN E2ELatencies}

\* clock.start()
StartE2E ==
  /\ out = <<>>
  /\ \E tape \in Answers :
       CommitWithin(start(Call("start", 0, tape)), NUM_ROUNDS + 1)

\* readings.push(clock.now())
NowE2E ==
  /\ out # <<>> /\ out[1].name \in {"start", "tick"}
  /\ Now

\* vi.advanceTimersByTime(SYNC_INTERVAL_MS): the interval fires once
RoundE2E ==
  /\ out # <<>> /\ out[1].name = "now"
  /\ \E tape \in Answers :
       CommitWithin(
         IntervalCallback([Call("tick", 0, tape) EXCEPT
                             !.wall = @ + Ms(config.syncIntervalMs)]),
         NUM_ROUNDS + 1)

NextE2E ==
  \/ StartE2E
  \/ NowE2E
  \/ RoundE2E

SpecE2E == InitE2E /\ [][NextE2E]_vars

----------------------------------------------------------------------------
\* SpecConstruct: `new SyncedClock(config)` with any historySize and
\* outlierThreshold a caller can pass, and what the instance, if there is
\* one, does with pongs afterwards.

\* a JavaScript value: a number num/den (NaN is 0/0) or a string
JsNumber(num, den) == [type |-> "number", num |-> num, den |-> den]
JsNaN == JsNumber(0, 0)
JsString == [type |-> "string", num |-> 0, den |-> 1]

JsHistorySizes ==
  {JsNumber(-1, 1), JsNumber(0, 1), JsNumber(1, 1), JsNumber(2, 1),
   JsNumber(3, 2), JsNaN, JsString}

JsThresholds ==
  {JsNumber(-2, 1), JsNumber(0, 1), JsNumber(1, 2), JsNumber(2, 1), JsNaN, JsString}

\* Number.isInteger(v)
Number_isInteger(v) == v.type = "number" /\ v.den # 0 /\ v.num % v.den = 0

\* v < n and v <= n on numbers: false when v is NaN
JsLess(v, n) == v.den # 0 /\ v.num < n * v.den
JsLessEq(v, n) == v.den # 0 /\ v.num <= n * v.den

\* the FilterEngine constructor: what it throws, or "ok"
FilterEngine_constructor(hs, th) ==
  IF ~Number_isInteger(hs) \/ JsLess(hs, 1) THEN "RangeError"
  ELSE IF th.type # "number" \/ JsLessEq(th, 0) THEN "RangeError"
  ELSE "ok"

InitConstruct ==
  /\ constructed = FALSE
  /\ pongHandler = FALSE
  /\ config = DefaultConfig
  /\ FieldInitialisers(FALSE, {DefaultSlewRate})
  /\ historySize = Null
  /\ outlierThreshold = <<0, 0>>
  /\ pushLog = <<>>

\* what the constructor leaves alone
constructFrame ==
  <<wall, perf, timers, hasDocument, docHandlers, offset, targetOffset, lastNow,
    intervalId, msgCounter, state, syncedResolvers, lastIntervalFire,
    visibilityHandler, history, listeners, slewRate, epochRealTime,
    epochSlewedTime, slewTargetOffset, scaleFactor, slewLastNow, stopped,
    destroyed, stateChanges, resolveCalls, nowRet, perfRet, pushLog, config,
    _listeners>>

\* new SyncedClock({historySize: hs, outlierThreshold: th, ...}): the
\* FilterEngine constructor runs, and throws, before onPong is called
Construct ==
  /\ ~constructed
  /\ out = <<>>
  /\ \E hs \in JsHistorySizes, th \in JsThresholds :
       \E r \in {FilterEngine_constructor(hs, th)} :
         /\ out' = <<Entry(Cur, "call", "constructor",
                           [historySize |-> hs, outlierThreshold |-> th], 0),
                     Entry(Cur, IF r = "ok" THEN "return" ELSE "throw",
                           "constructor", r, 0)>>
         /\ constructed' = (r = "ok")
         /\ pongHandler' = (r = "ok")
         /\ historySize' = IF r = "ok" THEN hs.num \div hs.den ELSE historySize
         /\ outlierThreshold' =
              IF r = "ok" THEN <<th.num, th.den>> ELSE outlierThreshold
         /\ UNCHANGED constructFrame

StartBuilt == constructed /\ StartQuiet

NextConstruct ==
  \/ Construct
  \/ HandlePongQuiet
  \/ StartBuilt

SpecConstruct == InitConstruct /\ [][NextConstruct]_vars

Range(q) == {q[i] : i \in DOMAIN q}

\* the operation the last step applied
LastOp == IF out = <<>> THEN "init" ELSE out[1].name

\* the last step logged an entry of this kind and name
Did(kind, name) == \E i \in DOMAIN out : out[i].kind = kind /\ out[i].name = name

\* the pings the operation `o` handed to the transport, in order of dispatch
Pings(o) == SelectSeq(o, LAMBDA e : e.kind = "ping")

Pending(w) == w \in Range(syncedResolvers)

----------------------------------------------------------------------------
\* Claims

\* C1: SyncedClock.now() never goes backward: between ticks, pongs of either
\* sign, stop()/start() and changes of the wall clock in both directions, each
\* value now() returns is at least the value it returned last, hence at least
\* every value it returned before.
C1_NowMonotonic ==
  [][ (LastOp' = "now" /\ nowRet # <<>>) => nowRet'[1] >= nowRet[1] ]_vars

\* now() returned its previous value because the wall clock was set back
C1_Witness ==
  /\ LastOp = "now"
  /\ nowRet = <<lastNow>>
  /\ wall + offset < lastNow
  /\ state = "SYNCED"
  /\ wall = Ms(0)
  /\ lastNow >= Ms(12000)

\* C2: SlewEngine.now() is non-decreasing: between setTargetOffset calls of
\* either sign and advances of performance.now(), each value now() returns is
\* at least the value it returned last.
C2_SlewNowMonotonic ==
  [][ (LastOp' = "performanceNow" /\ perfRet # <<>>) => perfRet'[1] >= perfRet[1] ]_vars

\* now() read an engine that is ahead of real time and running slow: the target
\* was lowered while the engine was converging upward
C2_Witness ==
  /\ LastOp = "performanceNow"
  /\ slewRate = DefaultSlewRate
  /\ scaleFactor < SlewDen
  /\ perf > epochRealTime
  /\ perfRet[1] > perf

\* C3: the synchronisation state never regresses: once SYNCED it stays SYNCED
\* under every later operation, and once it has left UNSYNCED it never is
\* UNSYNCED again.
C3_StateNeverRegresses ==
  [][ /\ (state = "SYNCED" => state' = "SYNCED")
      /\ (state # "UNSYNCED" => state' # "UNSYNCED") ]_vars

\* a SYNCED clock went through a sleep-detecting tick and is still SYNCED
C3_Witness == state = "SYNCED" /\ LastOp = "tick" /\ Did("emit", "sleep_detected")

\* the state_change events of a clock that pings, then receives a pong
StateChain ==
  << [from |-> "UNSYNCED", to |-> "SYNCING"], [from |-> "SYNCING", to |-> "SYNCED"] >>

\* C4 as claimed: the state_change events emitted so far are a prefix of
\* [UNSYNCED -> SYNCING, SYNCING -> SYNCED].
C4_Original ==
  /\ Len(stateChanges) <= Len(StateChain)
  /\ \A i \in DOMAIN stateChanges : stateChanges[i] = StateChain[i]

\* C4 amended: the state_change events emitted so far are [], [UNSYNCED ->
\* SYNCING], [UNSYNCED -> SYNCING, SYNCING -> SYNCED] or [UNSYNCED -> SYNCED];
\* the state is the one last entered, SYNCING is entered only once a ping was
\* dispatched, and SYNCED is entered only by a processed pong.
C4_Amended ==
  /\ \/ stateChanges = <<>> /\ state = "UNSYNCED"
     \/ stateChanges = SubSeq(StateChain, 1, 1) /\ state = "SYNCING"
     \/ stateChanges = StateChain /\ state = "SYNCED"
     \/ stateChanges = << [from |-> "UNSYNCED", to |-> "SYNCED"] >> /\ state = "SYNCED"
  /\ (state = "SYNCING" => msgCounter >= 1)
  /\ \A i \in DOMAIN out :
       (out[i].kind = "emit" /\ out[i].name = "state_change" /\ out[i].val.to = "SYNCED")
         => \E j \in 1..(i - 1) : out[j].kind = "call" /\ out[j].name = "pong"

\* a pong processed before any ping took the clock from UNSYNCED to SYNCED
C4_Witness ==
  /\ stateChanges = << [from |-> "UNSYNCED", to |-> "SYNCED"] >>
  /\ msgCounter = 0

\* C5: entering SYNCED resolves every pending waiter once and empties the list,
\* and waitForInitialSync() on a SYNCED clock resolves at once: while SYNCED no
\* waiter is pending and every promise handed out is resolved exactly once; no
\* promise is ever resolved twice, and a pending one is not resolved.
C5_WaitersResolvedOnce ==
  /\ state = "SYNCED" =>
       /\ syncedResolvers = <<>>
       /\ \A w \in DOMAIN resolveCalls : resolveCalls[w] = 1
  /\ \A w \in DOMAIN resolveCalls :
       resolveCalls[w] = IF Pending(w) THEN 0 ELSE 1

\* a pong took the clock to SYNCED and resolved a waiter that was pending, and a
\* later promise was resolved at once
C5_Witness ==
  /\ state = "SYNCED"
  /\ Len(resolveCalls) = 2
  /\ LastOp = "pong"
  /\ Did("resolve", "waiter")
  /\ Did("resolve", "immediate")

\* C6: destroy() resolves every waiter pending when it is called, leaves the
\* list of pending waiters empty and does not change the state.
C6_DestroyResolvesPending ==
  [][ LastOp' = "destroy" =>
        /\ syncedResolvers' = <<>>
        /\ state' = state
        /\ DOMAIN resolveCalls' = DOMAIN resolveCalls
        /\ \A w \in DOMAIN resolveCalls :
             resolveCalls'[w] = resolveCalls[w] + (IF Pending(w) THEN 1 ELSE 0) ]_vars

\* destroy() was called on a clock still SYNCING and resolved two waiters
C6_Witness ==
  /\ LastOp = "destroy"
  /\ state = "SYNCING"
  /\ Cardinality({i \in DOMAIN out : out[i].kind = "resolve"}) = 2

\* C7 as claimed: once destroy() was called, every promise handed out by
\* waitForInitialSync(), before or after it, is eventually resolved.
C7_Original ==
  \A w \in 1..MaxWaiters :
    (destroyed /\ w \in DOMAIN resolveCalls /\ resolveCalls[w] = 0)
      ~> (w \in DOMAIN resolveCalls /\ resolveCalls[w] >= 1)

\* C7 amended: when destroy() returns, every promise handed out before it is
\* resolved; a waitForInitialSync() call on a clock that is not SYNCED, destroyed
\* or not, registers a pending waiter, and a promise is resolved only by an
\* operation in which a pong is processed or destroy() is called.
C7_Amended ==
  /\ [](LastOp = "destroy" => \A w \in DOMAIN resolveCalls : resolveCalls[w] >= 1)
  /\ [][ /\ (LastOp' = "waitForInitialSync" /\ state # "SYNCED") =>
              /\ Len(resolveCalls') = Len(resolveCalls) + 1
              /\ resolveCalls'[Len(resolveCalls')] = 0
              /\ syncedResolvers' = Append(syncedResolvers, Len(resolveCalls'))
         /\ \A w \in DOMAIN resolveCalls :
              resolveCalls'[w] > resolveCalls[w] =>
                \/ Did("call", "destroy")'
                \/ Did("call", "pong")' ]_vars

\* a waiter registered after destroy() is pending on the torn-down clock
C7_Witness ==
  /\ destroyed
  /\ LastOp = "waitForInitialSync"
  /\ state # "SYNCED"
  /\ syncedResolvers # <<>>
  /\ timers = {}

\* C8: stop() changes nothing but the timer: history, offsets, lastNow, state,
\* ping counter, listeners and pending waiters are as before the call, and no
\* waiter is resolved.
C8_StopOnlyCancelsTimer ==
  [][ LastOp' = "stop" =>
        /\ intervalId' = Null
        /\ timers' = timers \ {intervalId}
        /\ UNCHANGED <<history, offset, targetOffset, lastNow, state, msgCounter,
                       listeners, syncedResolvers, resolveCalls, lastIntervalFire,
                       visibilityHandler, docHandlers, stateChanges, wall, perf,
                       slewRate, epochRealTime, epochSlewedTime, slewTargetOffset,
                       scaleFactor, slewLastNow, destroyed, nowRet, perfRet>> ]_vars

\* stop() cancelled the timer of a clock on which a waiter is still pending
C8_Witness ==
  /\ LastOp = "stop"
  /\ msgCounter >= 1
  /\ timers = {}
  /\ syncedResolvers # <<>>
  /\ listeners # [e \in SyncEvents |-> 0]

\* C9 as claimed: once stop() or destroy() was called and start() was not
\* called since, no ping goes to the transport and no interval callback runs.
C9_StopIsImmediate ==
  \A i \in DOMAIN out :
    (\/ out[i].kind = "ping"
     \/ (out[i].kind = "call" /\ out[i].name = "tick"))
      => ~out[i].stopped

\* C10 as claimed: at most one interval timer is alive, and it is the one
\* intervalId holds, so one stop() cancels all periodic activity.
C10_OneTimer ==
  /\ Cardinality(timers) <= 1
  /\ timers = IF intervalId = Null THEN {} ELSE {intervalId}

\* C11: ping cadence: start() on a stopped clock dispatches exactly one ping,
\* start() on a running clock none, every timer tick exactly one, whether or
\* not earlier pings were answered, and no other operation dispatches a ping;
\* hence one start() followed by n ticks has sent n + 1 pings.
C11_PingCadence ==
  [][ /\ Len(Pings(out')) = msgCounter' - msgCounter
      /\ (LastOp' = "start" /\ intervalId = Null) => msgCounter' = msgCounter + 1
      /\ (LastOp' = "start" /\ intervalId # Null) => msgCounter' = msgCounter
      /\ LastOp' = "tick" => msgCounter' = msgCounter + 1
      /\ LastOp' \notin {"start", "tick"} => msgCounter' = msgCounter ]_vars

\* the first tick after start() sent the second ping although the first one
\* was never answered
C11_Witness ==
  /\ LastOp = "tick"
  /\ Len(Pings(out)) = 1
  /\ msgCounter = 2
  /\ state = "SYNCING"
  /\ history = <<>>

\* C12 as claimed: pings reach the transport in the order of their
\* identifiers, the k-th ping dispatched carrying ping-k, and each carries
\* the wall-clock time of its dispatch.
C12_PingIdsInOrder ==
  /\ \A i \in DOMAIN Pings(out) :
       /\ Pings(out)[i].val.id = msgCounter - Len(Pings(out)) + i
       /\ Pings(out)[i].val.t0 = wall

----------------------------------------------------------------------------
\* FilterEngine claims (SpecFilter)

\* the samples pushed since the last flush, in order of the calls
LastFlush ==
  LET at == {0} \cup {i \in DOMAIN pushLog : pushLog[i].op = "flush"}
  IN  CHOOSE i \in at : \A j \in at : j <= i

Pushed == [i \in 1..(Len(pushLog) - LastFlush) |-> pushLog[LastFlush + i].sample]

\* C13: after any sequence of push() and flush() calls the history holds at
\* most historySize samples, and it is, in arrival order, the last
\* min(n, historySize) of the n samples pushed since the last flush.
C13_BoundedFifo ==
  LET n == Len(Pushed)
  IN  /\ Len(history) <= historySize
      /\ Len(history) = Min(n, historySize)
      /\ \A i \in DOMAIN history : history[i] = Pushed[n - Len(history) + i]

\* a push on a full window after an earlier flush evicted the oldest sample
C13_Witness ==
  /\ LastOp = "push"
  /\ LastFlush > 0
  /\ historySize = 2
  /\ Len(Pushed) = 3
  /\ Pushed[1] # Pushed[2] /\ Pushed[2] # Pushed[3]

\* the value the getOptimalOffset() call of the last step returned
Returned == out[Len(out)].val

RECURSIVE SumOver(_, _)
SumOver(f, S) ==
  IF S = {} THEN 0
  ELSE LET x == CHOOSE x \in S : TRUE IN f[x] + SumOver(f, S \ {x})

\* the samples of the window whose RTT is within outlierThreshold population
\* standard deviations of the mean RTT, in integers: with n samples of RTT
\* sum S, |r - S/n| <= (num/den) * sqrt(sum_j (r_j - S/n)^2 / n)
Inliers ==
  LET n == Len(history)
      r == [i \in DOMAIN history |-> history[i].rtt]
      S == SumOver(r, DOMAIN history)
      d == [i \in DOMAIN history |-> n * r[i] - S]
      dd == [i \in DOMAIN history |-> d[i] * d[i]]
      num == outlierThreshold[1]
      den == outlierThreshold[2]
  IN  {i \in DOMAIN history :
         n * den * den * dd[i] <= num * num * SumOver(dd, DOMAIN history)}

\* C14: on a non-empty history getOptimalOffset() returns the mean of the
\* offsets of exactly the samples whose RTT is within outlierThreshold
\* population standard deviations of the mean RTT, and the mean offset of
\* the whole window when no sample is.
C14_OutlierRejection ==
  (LastOp = "getOptimalOffset" /\ history # <<>>) =>
    LET o == [i \in DOMAIN history |-> history[i].offset]
    IN  IF Inliers # {}
        THEN Cardinality(Inliers) * Returned = SumOver(o, Inliers)
        ELSE Len(history) * Returned = SumOver(o, DOMAIN history)

\* a full window of three where one sample is rejected and two are kept
C14_Witness ==
  /\ LastOp = "getOptimalOffset"
  /\ Len(history) = 3
  /\ Cardinality(Inliers) = 2
  /\ Returned = Ms(-3)

\* C15: when all RTTs of the window are equal, getOptimalOffset() returns the
\* mean of all offsets, whatever the positive threshold and the window size.
C15_SteadyRttKeepsAll ==
  (/\ LastOp = "getOptimalOffset"
   /\ history # <<>>
   /\ \A i, j \in DOMAIN history : history[i].rtt = history[j].rtt)
  => Len(history) * Returned
       = SumOver([i \in DOMAIN history |-> history[i].offset], DOMAIN history)

\* two samples of equal RTT and different offsets, under the threshold 0.5
C15_Witness ==
  /\ LastOp = "getOptimalOffset"
  /\ Len(history) = 2
  /\ history[1].rtt = history[2].rtt
  /\ history[1].offset # history[2].offset
  /\ outlierThreshold = <<1, 2>>
  /\ Returned = Ms(-3)

\* C16: getOptimalOffset() returns 0 whenever the history is empty, on a
\* fresh engine and right after flush() whatever was pushed before; samples
\* pushed after a flush are taken, and the estimate reflects only them: it
\* is the offset of the sample when one was pushed, and lies between the
\* smallest and the largest offset pushed since the flush.
C16_EmptyGivesZero ==
  LastOp = "getOptimalOffset" =>
    LET o == {Pushed[i].offset : i \in DOMAIN Pushed}
    IN  /\ history = <<>> <=> Pushed = <<>>
        /\ Pushed = <<>> => Returned = 0
        /\ Len(Pushed) = 1 => Returned = Pushed[1].offset
        /\ Pushed # <<>> => \E lo, hi \in o : lo <= Returned /\ Returned <= hi

\* a sample pushed after a flush that discarded a sample of another offset
C16_Witness ==
  /\ LastOp = "getOptimalOffset"
  /\ LastFlush = 2
  /\ pushLog[1].sample.offset = Ms(300)
  /\ Len(Pushed) = 1
  /\ Returned = Ms(6)

----------------------------------------------------------------------------
\* Synchronisation claims

\* the sleep_detected events an operation emitted
Sleeps(o) == SelectSeq(o, LAMBDA e : e.kind = "emit" /\ e.name = "sleep_detected")

\* C17: a tick whose gap to the previous tick, or to start() for the first
\* tick, exceeds the threshold (sleepDetectionThresholdMs if configured, else
\* 10 * syncIntervalMs) flushes the history and emits exactly one
\* sleep_detected {gapMs, timestamp}; any other tick does neither; the
\* following tick measures its gap from this tick.
C17_SleepDetectedOnce ==
  [][ LET gap == wall - lastIntervalFire
          threshold ==
            IF config.sleepDetectionThresholdMs = <<>>
            THEN 10 * Ms(config.syncIntervalMs)
            ELSE Ms(config.sleepDetectionThresholdMs[1])
      IN  /\ LastOp' = "tick" =>
               /\ lastIntervalFire' = wall
               /\ IF gap > threshold
                  THEN /\ Len(Sleeps(out')) = 1
                       /\ Sleeps(out')[1].val = [gapMs |-> gap, timestamp |-> wall]
                       /\ history' = <<>>
                  ELSE /\ Sleeps(out') = <<>>
                       /\ history' = history
          /\ LastOp' # "tick" =>
               /\ Sleeps(out') = <<>>
               /\ lastIntervalFire' =
                    IF LastOp' = "start" /\ intervalId = Null
                    THEN wall ELSE lastIntervalFire ]_vars

\* a tick 12 s after start(), under the default threshold of 10 s, has
\* emptied a history that held a sample
C17_Witness ==
  /\ LastOp = "tick"
  /\ Len(Sleeps(out)) = 1
  /\ config.sleepDetectionThresholdMs = <<>>
  /\ msgCounter = 2
  /\ state = "SYNCED"
  /\ history = <<>>
  /\ lastIntervalFire = Ms(12000)

\* the events of one name an operation emitted, in order
Emitted(o, name) == SelectSeq(o, LAMBDA e : e.kind = "emit" /\ e.name = name)

\* the sync_success events of pongs whose resulting target offset is beyond
\* the drift threshold (sync_success carries the target offset its pong set)
Drifted(o) ==
  SelectSeq(Emitted(o, "sync_success"), LAMBDA e : Abs(e.val.offset) > DriftThreshold)

\* C18 as claimed: a pong emits drift_warning {offset, threshold, timestamp}
\* if and only if the absolute value of the target offset resulting from
\* that pong exceeds driftWarningThreshold (500 ms by default), once, with
\* that target offset and the threshold: an operation emits as many
\* drift_warning events as it handled such pongs, each carrying the target
\* offset of one of them.
C18_DriftWarningIff ==
  LET warnings == Emitted(out, "drift_warning")
  IN  /\ Len(warnings) = Len(Drifted(out))
      /\ \A i \in DOMAIN warnings :
           /\ warnings[i].val.threshold = DriftThreshold
           /\ \E j \in DOMAIN Drifted(out) :
                warnings[i].val.offset = Drifted(out)[j].val.offset

\* the sample the pong of the last step yields: {rtt, offset} from t0..t3
PongSample(o) ==
  LET p == PongInUnits(Pongs[o[1].val])
  IN  [rtt |-> calculateRTT(p.t0, p.t1, p.t2, p.t3),
       offset |-> calculateOffset(p.t0, p.t1, p.t2, p.t3)]

\* C19: each pong pushes exactly one sample {rtt, offset} and then sets the
\* target offset of the wall-clock slewer and of the SlewEngine to
\* getOptimalOffset() of the history that includes it; the two targets are
\* equal in every reachable state.
C19_PongPipeline ==
  /\ [](targetOffset = slewTargetOffset)
  /\ [][ LastOp' = "pong" =>
           /\ history' = push(history, PongSample(out'))
           /\ targetOffset' = getOptimalOffset(history')
           /\ slewTargetOffset' = getOptimalOffset(history') ]_vars

\* the second pong, of another offset: both targets are the mean, 346.25 ms
C19_Witness ==
  /\ LastOp = "pong"
  /\ Len(history) = 2
  /\ history[1].offset = Ms(995) /\ history[2].offset = -Ms(605) \div 2
  /\ 4 * targetOffset = Ms(1385)
  /\ slewTargetOffset = targetOffset

\* C20: only the processing of a pong modifies the target offset: ticks
\* (answered or not), now(), performanceNow(), the sleep flush, stop(),
\* start() and destroy() leave the target offset of both slewers unchanged.
C20_OnlyPongsMoveTarget ==
  [][LastOp' # "pong" => UNCHANGED <<targetOffset, slewTargetOffset>>]_vars

\* a tick that detected a sleep emptied the history; both targets still hold
\* the estimate of the last pong, -302.5 ms
C20_Witness ==
  /\ LastOp = "tick"
  /\ Len(Sleeps(out)) = 1
  /\ history = <<>>
  /\ 2 * targetOffset = -Ms(605)
  /\ slewTargetOffset = targetOffset

----------------------------------------------------------------------------
\* Slewing claims

\* C21: every now() call and every timer tick moves the running offset by
\* at most timeSlewRate, toward the target and never past it, landing on
\* the target when the gap is at most timeSlewRate; nothing but a pong
\* makes the gap |targetOffset - offset| grow.
C21_SteppedSlew ==
  [][ LET rate == Ms(config.timeSlewRate)
          gap == targetOffset - offset
      IN  /\ LastOp' \in {"now", "tick"} =>
               /\ Abs(offset' - offset) <= rate
               /\ Min(offset, targetOffset) <= offset'
               /\ offset' <= Max(offset, targetOffset)
               /\ Abs(gap) <= rate => offset' = targetOffset
               /\ Abs(gap) > rate => Abs(offset' - offset) = rate
          /\ LastOp' # "pong" => Abs(targetOffset' - offset') <= Abs(gap) ]_vars

\* a now() call took one full step of 700 ms toward a target 995 ms away
C21_Witness ==
  /\ LastOp = "now"
  /\ offset = Ms(700)
  /\ targetOffset = Ms(995)
  /\ nowRet = <<wall + Ms(700)>>

\* where the slewed clock stands: the anchor plus the real time elapsed since
\* it, stretched by the scale factor
SlewedPosition ==
  epochSlewedTime + ((perf - epochRealTime) * scaleFactor) \div SlewDen

C23_Original ==
  [][ (LastOp' = "performanceNow" /\ scaleFactor # SlewDen) =>
        IF slewRate * (perf - epochRealTime) >= SlewDen * Abs(slewTargetOffset)
        THEN /\ scaleFactor' = SlewDen
             /\ epochSlewedTime' = perf + slewTargetOffset
             /\ epochRealTime' = perf
             /\ perfRet' = <<perf + slewTargetOffset>>
        ELSE UNCHANGED <<scaleFactor, epochSlewedTime, epochRealTime>> ]_vars

\* C23 amended: the time to converge is measured from where the slewer
\* stood: after setTargetOffset(x) on a slewer converged at offset o, the
\* first now() called once |x - o| / rate real ms have elapsed snaps to
\* real + x, re-anchors there, resets scaleFactor to 1 and returns real + x
\* unless it has already returned a later value; a now() called earlier
\* does not snap and leaves scaleFactor at 1 +/- rate.
C23_Amended ==
  [][ (LastOp' = "performanceNow" /\ scaleFactor # SlewDen) =>
        LET o == epochSlewedTime - epochRealTime
        IN  IF slewRate * (perf - epochRealTime) >= SlewDen * Abs(slewTargetOffset - o)
            THEN /\ scaleFactor' = SlewDen
                 /\ epochSlewedTime' = perf + slewTargetOffset
                 /\ epochRealTime' = perf
                 /\ perfRet' = <<Max(perf + slewTargetOffset, slewLastNow)>>
            ELSE UNCHANGED <<scaleFactor, epochSlewedTime, epochRealTime>> ]_vars

\* rate 0.05, converged at -1 ms, then setTargetOffset(2): 40 ms = |2| / rate
\* later now() has not snapped (61 ms against a target of 62 ms)
C23_Witness ==
  /\ LastOp = "performanceNow"
  /\ slewRate = DefaultSlewRate
  /\ slewTargetOffset = Ms(2)
  /\ epochRealTime = Ms(20) /\ epochSlewedTime = Ms(19)
  /\ perf = Ms(60)
  /\ scaleFactor = SlewDen + DefaultSlewRate
  /\ perfRet = <<Ms(61)>>

----------------------------------------------------------------------------
\* End to end

----------------------------------------------------------------------------
\* Construction and release

\* v is a positive integer / a positive number: NaN and strings are neither
PositiveInteger(v) ==
  v.type = "number" /\ v.den > 0 /\ v.num > 0 /\ v.num % v.den = 0
PositiveNumber(v) == v.type = "number" /\ v.den > 0 /\ v.num > 0

\* C25 as claimed: constructing a SyncedClock fails with a RangeError
\* whenever historySize is not a positive integer or outlierThreshold is not
\* a positive number; after such a failure there is no instance, no sample
\* was pushed and no pong callback is registered with the transport.
C25_ConfigErrorsAtConstruction ==
  /\ ~constructed => (~pongHandler /\ history = <<>>)
  /\ LastOp = "constructor" =>
       LET args == out[1].val
       IN  (~PositiveInteger(args.historySize) \/ ~PositiveNumber(args.outlierThreshold))
             => /\ out[2].kind = "throw" /\ out[2].val = "RangeError"
                /\ ~constructed

\* the events an operation emitted to at least one listener
Heard(o) == SelectSeq(o, LAMBDA e : e.kind = "emit" /\ e.heard > 0)

\* C26 as claimed: after destroy() the history is empty, the timer is
\* cancelled and every listener is detached, and no listener registered
\* before destroy() is invoked for an event emitted afterwards, events
\* caused by a later pong included.
C26_DestroyReleasesAll ==
  [][ /\ LastOp' = "destroy" =>
           /\ history' = <<>>
           /\ intervalId' = Null /\ timers' = {}
           /\ \A e \in SyncEvents : listeners'[e] = 0
      /\ (destroyed /\ \A e \in SyncEvents : listeners[e] = 0) =>
           Heard(out') = <<>> ]_vars

\* the fields of the clock, of its filter, its emitter and its timers
ClockFields ==
  <<timers, docHandlers, offset, targetOffset, lastNow, intervalId, msgCounter,
    state, syncedResolvers, lastIntervalFire, visibilityHandler, history,
    listeners, slewRate, epochRealTime, epochSlewedTime, slewTargetOffset,
    scaleFactor, slewLastNow>>

\* the operation `o` emitted no event and resolved no promise
Silent(o) == \A i \in DOMAIN o : o[i].kind \notin {"emit", "resolve"}

\* nothing is held that destroy() releases
Released ==
  /\ intervalId = Null
  /\ visibilityHandler = Null
  /\ history = <<>>
  /\ syncedResolvers = <<>>
  /\ \A e \in SyncEvents : listeners[e] = 0

\* C27 as claimed: stop() on a clock that is stopped and destroy() on a clock
\* that is destroyed leave every piece of state unchanged (timer handle,
\* history, offsets, state, waiters, listeners), emit no event and resolve no
\* waiter.
C27_Original ==
  [][ (\/ LastOp' = "stop" /\ intervalId = Null
       \/ LastOp' = "destroy" /\ destroyed) =>
        /\ ClockFields' = ClockFields
        /\ resolveCalls' = resolveCalls
        /\ Silent(out') ]_vars

\* C27 amended: stop() on a clock without a timer handle changes nothing, emits
\* nothing and resolves nothing. destroy() on a destroyed clock emits nothing
\* and runs the same release again: it resolves, once each, the waiters that
\* registered since and are pending, and no other; no promise is resolved
\* twice; it cancels the timer whose handle the clock holds, empties the
\* history and detaches the listeners, and leaves offsets, state and ping
\* counter alone; it changes nothing when nothing was registered, started or
\* received since the previous destroy().
C27_Amended ==
  [][ /\ (LastOp' = "stop" /\ intervalId = Null) =>
            /\ ClockFields' = ClockFields
            /\ resolveCalls' = resolveCalls
            /\ Silent(out')
      /\ (LastOp' = "destroy" /\ destroyed) =>
            /\ \A i \in DOMAIN out' : out'[i].kind # "emit"
            /\ DOMAIN resolveCalls' = DOMAIN resolveCalls
            /\ \A w \in DOMAIN resolveCalls :
                 /\ resolveCalls'[w] = resolveCalls[w] + (IF Pending(w) THEN 1 ELSE 0)
                 /\ resolveCalls'[w] <= 1
            /\ intervalId' = Null /\ timers' = timers \ {intervalId}
            /\ history' = <<>> /\ syncedResolvers' = <<>>
            /\ \A e \in SyncEvents : listeners'[e] = 0
            /\ UNCHANGED <<offset, targetOffset, lastNow, state, msgCounter,
                           lastIntervalFire, slewTargetOffset, scaleFactor>>
            /\ Released => /\ ClockFields' = ClockFields
                           /\ Silent(out') ]_vars

\* destroy() on a destroyed clock that never changed state resolved the waiter
\* that registered after the first destroy(), which had resolved the other one
C27_Witness ==
  /\ LastOp = "destroy"
  /\ stateChanges = <<>>
  /\ resolveCalls = <<1, 1>>
  /\ Cardinality({i \in DOMAIN out : out[i].kind = "resolve"}) = 1

\* the id _sendPing gives the n-th ping: `ping-${n}`
PingId(n) == << "ping-1", "ping-2", "ping-3" >>[n]

\* the pong delivered by the operation `o` carries the id of a ping dispatched
\* before it
Solicited(o) == \E n \in 1..msgCounter : PingId(n) = Pongs[o[1].val].id

\* C28: pongs are processed in delivery order without correlation to pings:
\* every pong delivered appends its sample at the newest end of the history,
\* behind the samples of the pongs that arrived before it (the oldest leaves
\* when the history is full), whether or not its id is that of a dispatched
\* ping and whether or not the same pong arrived before; processing a pong
\* dispatches no ping and leaves the ping counter alone.
C28_PongsInArrivalOrder ==
  [][ LastOp' = "pong" =>
        /\ history' = IF Len(history) < historySize
                      THEN Append(history, PongSample(out'))
                      ELSE Append(Tail(history), PongSample(out'))
        /\ msgCounter' = msgCounter
        /\ Pings(out') = <<>> ]_vars

\* the pong "ping-7" became a sample twice over, while ping-1 is the only ping
\* dispatched
C28_Witness ==
  /\ LastOp = "pong"
  /\ msgCounter = 1
  /\ ~Solicited(out)
  /\ Len(history) = 2
  /\ history[1] = PongSample(out) /\ history[2] = PongSample(out)

\* the step took the suspend/resume gap check: the gap since the last cycle is
\* measured and recorded, and a gap beyond the threshold flushes the history
\* and emits sleep_detected once
GapChecked ==
  /\ lastIntervalFire' = wall
  /\ IF wall - lastIntervalFire > SleepThreshold
     THEN Len(Sleeps(out')) = 1 /\ history' = <<>>
     ELSE Sleeps(out') = <<>> /\ history' = history

\* the step took one step of the stepped slewer
SlewStepped ==
  LET diff == targetOffset - offset
  IN  offset' = offset + Min(Abs(diff), Ms(config.timeSlewRate)) * Sign(diff)

\* the step dispatched one ping, after any sleep_detected event it emitted
PingDispatched ==
  /\ msgCounter' = msgCounter + 1
  /\ Len(Pings(out')) = 1
  /\ \A i, j \in DOMAIN out' :
       (out'[i].kind = "emit" /\ out'[i].name = "sleep_detected"
          /\ out'[j].kind \in {"ping", "emit"} /\ out'[j].name \in {"transport", "sync_start"})
         => i < j

\* C29 as claimed: every ping cycle, a timer tick or the immediate cycle of
\* start() on a clock that is not running, performs the gap check, one step
\* of the stepped slewer and the dispatch of a ping, in this order.
C29_Original ==
  [][ (LastOp' = "tick" \/ (LastOp' = "start" /\ intervalId = Null)) =>
        (GapChecked /\ SlewStepped /\ PingDispatched) ]_vars

\* C29 amended: every timer tick performs the gap check, one step of the
\* stepped slewer and the dispatch of a ping, in this order; start() on a
\* clock that is not running records the time as the start of the gap
\* measurement and dispatches a ping: it checks no gap (no sleep_detected, the
\* history is kept) and takes no slew step (offset unchanged).
C29_Amended ==
  [][ /\ LastOp' = "tick" => (GapChecked /\ SlewStepped /\ PingDispatched)
      /\ (LastOp' = "start" /\ intervalId = Null) =>
            /\ lastIntervalFire' = wall
            /\ Sleeps(out') = <<>> /\ history' = history
            /\ offset' = offset
            /\ PingDispatched ]_vars

\* start() after stop(), with a sample in the history and the offset short of
\* its target: the ping went out and the offset is where it was
C29_Witness ==
  /\ LastOp = "start"
  /\ msgCounter >= 2
  /\ history # <<>>
  /\ offset # targetOffset
  /\ Len(Pings(out)) = 1

\* C30 as claimed: with the same target x set again by every pong and no
\* now() in between, a now() called at least |x| / rate real ms after the
\* first pong returns real + x, and the slewed position the engine anchors
\* at is never beyond the target, on the side away from where it started.
C30_ReachesFixedTarget ==
  /\ [](/\ slewTargetOffset > 0 => epochSlewedTime - epochRealTime <= slewTargetOffset
        /\ slewTargetOffset < 0 => epochSlewedTime - epochRealTime >= slewTargetOffset)
  /\ [][ (/\ LastOp' = "performanceNow"
          /\ slewTargetOffset # 0
          /\ slewRate * perf >= SlewDen * Abs(slewTargetOffset)) =>
           perfRet' = <<perf + slewTargetOffset>> ]_vars

\* the steps of the stepped slewer still needed: ceil(|targetOffset - offset| / timeSlewRate)
StepsLeft ==
  (Abs(targetOffset - offset) + Ms(config.timeSlewRate) - 1) \div Ms(config.timeSlewRate)

\* C31: the stepped wall clock converges: without a further pong every now()
\* call and every tick takes one off the ceil(|targetOffset - offset| /
\* timeSlewRate) steps still needed, so after that many steps the offset is
\* the target exactly; it then stays equal, and now() returns
\* max(real + targetOffset, previous reading).
C31_SteppedConverges ==
  [][ LastOp' \in {"now", "tick"} =>
        /\ targetOffset' = targetOffset
        /\ StepsLeft' = Max(StepsLeft - 1, 0)
        /\ StepsLeft' = 0 => offset' = targetOffset
        /\ (LastOp' = "now" /\ StepsLeft' = 0) =>
              /\ nowRet' = <<Max(wall + targetOffset, lastNow)>>
              /\ lastNow' = Max(wall + targetOffset, lastNow) ]_vars

\* the second step toward a target 995 ms away, at 700 ms a step: the offset
\* is the target and now() returned real + 995
C31_Witness ==
  /\ LastOp = "now"
  /\ targetOffset = Ms(995)
  /\ offset = targetOffset
  /\ StepsLeft = 0
  /\ nowRet = <<wall + targetOffset>>

\* the callbacks an emit invoked, in order of invocation
Invoked(o) == [i \in 1..(Len(o) - 1) |-> o[i + 1].val]

\* C32: event delivery iterates a snapshot: emit(e) invokes the listeners
\* registered for e when it begins, once per registration and in registration
\* order, whatever the callbacks do to the emitter during delivery (off(),
\* on(), removeAllListeners()); a listener added during delivery is not
\* invoked in it, and emitting an event without listeners does nothing.
C32_EmitIteratesSnapshot ==
  [][ LastOp' = "emit" =>
        LET ev == out'[1].val.event
        IN  /\ Invoked(out') = _listeners[ev]
            /\ \A i \in 2..Len(out') : out'[i].kind = "listener" /\ out'[i].name = ev
            /\ _listeners[ev] = <<>> => /\ Len(out') = 1
                                        /\ _listeners' = _listeners ]_vars

\* cb1, invoked first, removed cb2 from the event being delivered: cb2 was
\* still invoked, and is no longer registered
C32_Witness ==
  /\ LastOp = "emit"
  /\ out[1].val.event = "ping"
  /\ Len(out[1].val.tape) = 1
  /\ out[1].val.tape[1] = [op |-> "off", event |-> "ping", listener |-> "cb2"]
  /\ Invoked(out) = << "cb1", "cb2" >>
  /\ _listeners["ping"] = << "cb1" >>

\* C33: after a sleep-detected flush the samples of before have no influence
\* on later estimates: the tick that detects the sleep leaves the history
\* empty; the target offset a pong sets is a function of the history it
\* leaves, which holds no sample older than the flush; and the first pong
\* after the flush sets both target offsets to exactly its own offset.
C33_FlushForgets ==
  /\ [](LastOp = "pong" =>
          /\ targetOffset = getOptimalOffset(history)
          /\ slewTargetOffset = targetOffset)
  /\ [][ /\ (LastOp' = "tick" /\ Sleeps(out') # <<>>) => history' = <<>>
         /\ (LastOp' = "pong" /\ history = <<>>) =>
               /\ history' = << PongSample(out') >>
               /\ targetOffset' = PongSample(out').offset
               /\ slewTargetOffset' = PongSample(out').offset ]_vars

\* the first pong after a sleep: the stepped offset is still positive from
\* the sample of 995 ms taken before the suspension, and the target is the
\* new pong's own -302.5 ms, not the mean of the two
C33_Witness ==
  /\ LastOp = "pong"
  /\ offset > 0
  /\ history = << PongSample(out) >>
  /\ 2 * targetOffset = -Ms(605)
  /\ slewTargetOffset = targetOffset

\* C34: for a remote clock ahead by theta, one-way latencies d1 and d2 and
\* remote processing time p, calculateRTT returns d1 + d2 and twice
\* calculateOffset is 2 * theta + d1 - d2: the offset is off by at most half
\* the round trip, and exact when the latencies are equal.
C34_FourTimestamps ==
  LastOp = "exchange" =>
    LET x == out[1].val
        rtt == out[2].val
        offset_ == out[3].val
    IN  /\ rtt = Ms(x.d1 + x.d2)
        /\ 2 * offset_ = Ms(2 * x.theta + x.d1 - x.d2)
        /\ 2 * Abs(offset_ - Ms(x.theta)) <= rtt
        /\ x.d1 = x.d2 => offset_ = Ms(x.theta)

\* a remote clock 110 ms behind, 20 ms out and 25 ms back, 10 ms of
\* processing: the round trip is 45 ms and the offset -112.5 ms
C34_Witness ==
  /\ LastOp = "exchange"
  /\ out[1].val = [theta |-> -110, d1 |-> 20, d2 |-> 25, p |-> 10, t0 |-> 100]
  /\ out[2].val = Ms(45)
  /\ 2 * out[3].val = -Ms(225)

\* the positions in the operation `o` of the entries of this kind and name
At(o, kind, name) == {i \in DOMAIN o : o[i].kind = kind /\ o[i].name = name}

\* C35 as claimed: each processed pong emits exactly one sync_success, whose
\* offset is the new filtered target offset and whose rtt is the pong's own;
\* the events of a pong come in the order sync_success, drift_warning (if
\* any), state_change to SYNCED (first pong only), so that every sync_success
\* and drift_warning is delivered before the state is SYNCED and before any
\* waiter is resolved.
C35_PongEventOrder ==
  [][ LastOp' = "pong" =>
        LET o == out'
            S == At(o, "emit", "sync_success")
            D == At(o, "emit", "drift_warning")
            C == At(o, "emit", "state_change")
            R == At(o, "resolve", "waiter")
            first == o[CHOOSE i \in S : \A j \in S : i <= j].val
        IN  /\ Cardinality(S) = Cardinality(At(o, "call", "pong"))
            /\ first.offset = getOptimalOffset(push(history, PongSample(o)))
            /\ first.rtt = PongSample(o).rtt
            /\ \A s \in S, d \in D : s < d
            /\ \A e \in S \cup D, c \in C \cup R : e < c
            /\ \A c \in C : o[c].val.to = "SYNCED"
            /\ Cardinality(C) = IF state = "SYNCED" THEN 0 ELSE 1
            /\ state' = "SYNCED" ]_vars

\* the state of the clock when entry j of the operation `o` was logged: the
\* state the last state_change before j entered, or the state `s` the
\* operation began in
StateAt(o, j, s) ==
  LET before == {k \in At(o, "emit", "state_change") : k < j}
  IN  IF before = {} THEN s
      ELSE o[CHOOSE k \in before : \A l \in before : l <= k].val.to

\* C36: ping dispatch order: every ping has its sync_start {timestamp = t0}
\* emitted before it; the transition UNSYNCED -> SYNCING, when a ping makes
\* it, comes with its state_change after a sync_start and before the ping
\* reaches the transport; so the state is never UNSYNCED when the transport
\* receives a ping, and a transport that delivers the pong from inside
\* sendPing takes a SYNCING clock to SYNCED within the same call.
C36_PingDispatchOrder ==
  [][ LET o == out'
          P == At(o, "ping", "transport")
          S == At(o, "emit", "sync_start")
          C == At(o, "emit", "state_change")
      IN  /\ Cardinality(P) = Cardinality(S)
          /\ \A j \in P :
               /\ \E i \in S : i < j /\ o[i].val.timestamp = o[j].val.t0
               /\ Cardinality({i \in S : i < j}) >= Cardinality({i \in P : i <= j})
               /\ StateAt(o, j, state) # "UNSYNCED"
               /\ (j < Len(o) /\ o[j + 1].kind = "call" /\ o[j + 1].name = "pong") =>
                     /\ state' = "SYNCED"
                     /\ StateAt(o, j, state) = "SYNCING" =>
                           \E k \in C : k > j /\ o[k].val = [from |-> "SYNCING", to |-> "SYNCED"]
          /\ \A k \in C :
               o[k].val = [from |-> "UNSYNCED", to |-> "SYNCING"] =>
                 /\ \E i \in S : i < k
                 /\ \E j \in P : k < j ]_vars

\* start() on a new clock whose transport answered from inside sendPing:
\* sync_start, UNSYNCED -> SYNCING, the ping, its pong, SYNCING -> SYNCED
C36_Witness ==
  /\ LastOp = "start"
  /\ msgCounter = 1
  /\ state = "SYNCED"
  /\ stateChanges = StateChain
  /\ \E j \in At(out, "ping", "transport") :
       /\ j < Len(out)
       /\ out[j + 1].kind = "call" /\ out[j + 1].name = "pong"
       /\ \E i \in At(out, "emit", "sync_start") : i < j

\* the operation `o` made no call into the clock from inside a callback
Plain(o) == \A i \in 2..Len(o) : o[i].kind # "call"

\* C37: a pong is processed whenever the transport delivers it, whatever the
\* run state (never started, stopped, destroyed): it leaves the state SYNCED
\* with no waiter pending, every waiter that was pending resolved once, and,
\* unless a callback calls back into the clock meanwhile, its sample is
\* pushed to the history, also an emptied one, and both target offsets are
\* the estimate over that history.
C37_PongsAlwaysProcessed ==
  [][ LastOp' = "pong" =>
        /\ state' = "SYNCED"
        /\ syncedResolvers' = <<>>
        /\ \A w \in DOMAIN resolveCalls :
             resolveCalls'[w] = resolveCalls[w] + (IF Pending(w) THEN 1 ELSE 0)
        /\ Plain(out') =>
             /\ history' = push(history, PongSample(out'))
             /\ targetOffset' = getOptimalOffset(history')
             /\ slewTargetOffset' = targetOffset' ]_vars

\* a pong delivered to a destroyed clock that had never been started: it is
\* the only sample of the history, the state went from UNSYNCED to SYNCED and
\* the waiter registered after destroy() was resolved
C37_Witness ==
  /\ LastOp = "pong"
  /\ Plain(out)
  /\ destroyed
  /\ msgCounter = 0
  /\ timers = {}
  /\ history = << PongSample(out) >>
  /\ targetOffset = PongSample(out).offset
  /\ stateChanges = << [from |-> "UNSYNCED", to |-> "SYNCED"] >>
  /\ At(out, "resolve", "waiter") # {}

\* C38: a pause is not taken for a suspension: start() on a clock that is
\* not running records the wall-clock time as the time of the previous
\* cycle, however long ago stop() was called, and detects no sleep itself;
\* a tick detects a sleep exactly when the time recorded last, by that
\* start() for the first tick after it, lies more than the threshold back,
\* and otherwise emits no sleep_detected and flushes nothing; nothing but
\* start() and a tick records that time.
C38_PauseIsNotSleep ==
  [][ /\ (LastOp' = "start" /\ intervalId = Null) =>
            /\ lastIntervalFire' = wall
            /\ Sleeps(out') = <<>>
      /\ LastOp' = "tick" =>
            /\ lastIntervalFire' = wall
            /\ IF wall - lastIntervalFire > SleepThreshold
               THEN Sleeps(out') # <<>>
               ELSE Sleeps(out') = <<>> /\ (Plain(out') => history' = history)
      /\ (LastOp' \notin {"start", "tick"} /\ Plain(out')) =>
            lastIntervalFire' = lastIntervalFire ]_vars

\* a tick at 12 s on a clock with the 10 s threshold and a sample in its
\* history: the third ping, no sleep detected, the history kept
C38_Witness ==
  /\ LastOp = "tick"
  /\ config = DefaultConfig
  /\ wall = Ms(12000)
  /\ msgCounter = 3
  /\ Sleeps(out) = <<>>
  /\ history # <<>>

\* the anchor of the SlewEngine stands on its target, up to the convergence
\* threshold
OnTarget ==
  ConvergenceThresholdDen
    * Abs(epochSlewedTime - epochRealTime - slewTargetOffset) < Scale

\* C39: in every state of a SlewEngine a scaleFactor of 1 means that the
\* anchor stands on the target (initially, after a snap in now(), after a
\* setTargetOffset that chooses 1), and a now() that leaves the factor at 1
\* returns real + targetOffset unless the last value returned is higher.
C39_UnitFactorOnTarget ==
  /\ [](scaleFactor = SlewDen => OnTarget)
  /\ [][ (LastOp' = "performanceNow" /\ scaleFactor' = SlewDen) =>
            perfRet' = <<Max(perf + slewTargetOffset, slewLastNow)>> ]_vars

\* setTargetOffset has chosen factor 1 for a target other than 0, on which
\* an earlier now() had snapped
C39_Witness ==
  /\ LastOp = "setTargetOffset"
  /\ scaleFactor = SlewDen
  /\ slewTargetOffset # 0
  /\ OnTarget
  /\ perfRet = <<perf + slewTargetOffset>>

----------------------------------------------------------------------------
\* SpecTwoClocks: one SyncedClock read through now() and performanceNow()
\* between pongs, while performance.now() advances far enough for the
\* SlewEngine to reach the targets the pongs set.

\* steps of performance.now() in SpecTwoClocks
MaxFarSteps == 2

\* one step of performance.now(): ten sync intervals (ms)
PerfStride == 10 * DefaultConfig.syncIntervalMs

AdvancePerfFar ==
  /\ perf < MaxFarSteps * Ms(PerfStride)
  /\ Commit([Call("advancePerf", 0, <<>>) EXCEPT !.perf = @ + Ms(PerfStride)])

NextTwoClocks ==
  \/ Now
  \/ PerformanceNow
  \/ HandlePongQuiet
  \/ SetWall
  \/ AdvancePerfFar

SpecTwoClocks == Init /\ [][NextTwoClocks]_vars

\* what the SlewEngine holds
SlewFields ==
  <<slewRate, epochRealTime, epochSlewedTime, slewTargetOffset, scaleFactor,
    slewLastNow, perfRet>>

\* what the stepped clock holds
SteppedFields == <<offset, lastNow, nowRet>>

\* what neither reading may touch
SyncFields ==
  <<wall, perf, history, targetOffset, slewTargetOffset, state, timers,
    intervalId, msgCounter, lastIntervalFire, syncedResolvers, listeners,
    visibilityHandler, docHandlers>>

\* C40: now() steps the offset towards targetOffset by at most timeSlewRate,
\* returns max(wall + offset, lastNow) and leaves the SlewEngine alone;
\* performanceNow() returns what the SlewEngine returns, its new floor, and
\* leaves offset and lastNow alone; neither changes the history, the target
\* offsets, the state or the timer.
C40_ClocksIndependent ==
  [][ /\ LastOp' = "now" =>
            /\ UNCHANGED SlewFields
            /\ UNCHANGED SyncFields
            /\ Abs(offset' - offset) =
                  Min(Abs(targetOffset - offset), Ms(config.timeSlewRate))
            /\ Abs(targetOffset - offset') <= Abs(targetOffset - offset)
            /\ lastNow' = Max(wall + offset', lastNow)
            /\ nowRet' = <<lastNow'>>
      /\ LastOp' = "performanceNow" =>
            /\ UNCHANGED SteppedFields
            /\ UNCHANGED SyncFields
            /\ UNCHANGED slewRate
            /\ perfRet' = <<slewLastNow'>>
            /\ slewLastNow' >= slewLastNow ]_vars

\* performanceNow() has snapped onto the target of a pong while the stepped
\* clock, read once, is still on its way to it
C40_Witness ==
  /\ LastOp = "performanceNow"
  /\ history # <<>>
  /\ scaleFactor = SlewDen
  /\ epochRealTime = perf
  /\ perfRet = <<perf + slewTargetOffset>>
  /\ offset \notin {0, targetOffset}
  /\ nowRet = <<lastNow>>

====
